---- MODULE Spec2Model ----
(***************************************************************************)
(* Plan - Execute - Evaluate agent (Canqiang/claude-code-agent).           *)
(*                                                                         *)
(* Spec      GeneralPurposeAgent.run (src/src/agent.py) with the Planner   *)
(*           (src/src/planning.py) and the Evaluator                       *)
(*           (src/src/evaluation.py); the Executor is seen through the     *)
(*           ExecutionResult it returns or the exception it raises.        *)
(* SpecExec  ExecutionEngine.execute_task (src/src/execution.py), one      *)
(*           call, step by step.                                           *)
(*                                                                         *)
(* The language model is the environment: every reply of the Model Gateway *)
(* is drawn from a small set of replies, classified by what the parsing    *)
(* code makes of it (JSON object, text json.loads rejects, object with a   *)
(* key missing).  A persistent transport failure of the Gateway is the     *)
(* exception chat_completion raises after its retries.                     *)
(***************************************************************************)
EXTENDS Integers, Sequences, FiniteSets, TLC

\* Bounds of the model.
MaxPlanLen == 2          \* subtasks in a plan reply of the model
max_iterations == 3      \* ExecutionEngine.max_iterations (configurable)
max_subtasks == 1        \* PlanningModule.max_subtasks (configurable)

\* evaluation.success_threshold, in hundredths (0.7).
success_threshold == 70

VARIABLES
    \* ---- GeneralPurposeAgent.run
    config,              \* self.config: step_evaluation, allow_replanning, thinking_enabled
    pc,                  \* position of run
    raised,              \* exception that left run ("none" while it runs)
    planner_reply,       \* class of the reply create_plan received
    initial_plan,        \* the Plan create_plan returned; the for statement iterates its subtasks
    revised_plan,        \* the last Plan object replan built
    current_plan,        \* self.current_plan: "None", "initial" or "revised"
    idx,                 \* position of the for loop in initial_plan.subtasks
    result,              \* ExecutionResult of the last execute_task call
    step_evaluations,    \* List[StepEvaluation]
    completed_subtasks,  \* List[int]
    skipped,             \* history: positions the loop skipped
    calls,               \* history: component calls made by run, in order
    final_evaluation,    \* what run returns
    task_history,        \* LongTermMemory.task_history
    \* ---- ExecutionEngine.execute_task
    e_pc,                \* position of execute_task
    thinking_module,     \* whether the engine has a thinking module
    messages,            \* the conversation
    iterations,          \* loop counter
    completions,         \* history: completions received, in order
    tool_calls,          \* tool invocations of the current completion
    tc,                  \* position of the inner for loop in tool_calls
    tool_calls_made,     \* the tool-call log
    executions,          \* history: tool.execute calls, each with the conversation length it saw
    exec_result,         \* what execute_task returns
    e_raised,            \* exception that left execute_task ("none" if none did)
    \* ---- EvaluationModule called on its own
    v_pc,                \* "idle", "step", "final", "stepped", "finalled", "step_raised", "final_raised"
    v_actual_result,     \* evaluate_step's actual_result argument
    eval_steps,          \* evaluate_final's step_evaluations argument
    eval_reply,          \* class of the reply the call received
    step_out,            \* what evaluate_step returned
    final_out,           \* what evaluate_final returned
    \* ---- AzureOpenAIClient.chat_completion under its retry decorator
    g_pc,                \* "idle", "attempt", "wait", "returned", "raised"
    attempt_number,      \* number of the attempt being made
    attempts,            \* history: attempts of all calls, [call, attempt, ok]
    waits,               \* history: seconds slept between attempts
    outcomes,            \* history: how each call ended, [call, response] or [call, error]
    \* ---- StreamHandler
    subscribers,         \* self.subscribers: list of callbacks
    event_history,       \* self.event_history: list of events
    frames,              \* the emit calls in progress, innermost last: [event, i, running,
                         \* gen: the run_streaming generator that called emit, or 0]
    deliveries,          \* history: callback invocations in order, [event, callback,
                         \* unsubscribed: the callback's last (un)subscription was unsubscribe]
    emitted,             \* history: self.subscribers, and the unsubscribed callbacks, as
                         \* they were when each event was emitted
    unsubscribed,        \* history: callbacks whose last (un)subscription was unsubscribe
    printed,             \* history: number of error lines emit printed
    handler_calls,       \* history: number of subscribe, unsubscribe, clear_history and
                         \* emit calls
    \* ---- StreamingAgent.run_streaming
    rs_pc,               \* position of each generator run_streaming returned, in the
                         \* order the generators were started
    rs_calls,            \* number of run_streaming generators started
    gen_pos,             \* per generator: index of the list iterator of its stream_generator
    yielded,             \* history: what the calls yielded, in order, [call, event]
    sent                 \* history: the events the calls emitted, in order

runVars == <<config, pc, raised, planner_reply, initial_plan, revised_plan, current_plan, idx,
             result, step_evaluations, completed_subtasks, skipped, calls,
             final_evaluation, task_history>>
execVars == <<e_pc, thinking_module, messages, iterations, completions, tool_calls, tc,
              tool_calls_made, executions, exec_result, e_raised>>
evalVars == <<v_pc, v_actual_result, eval_steps, eval_reply, step_out, final_out>>
gwVars == <<g_pc, attempt_number, attempts, waits, outcomes>>
streamVars == <<subscribers, event_history, frames, deliveries, emitted, unsubscribed,
                printed, handler_calls>>
genVars == <<rs_pc, rs_calls, gen_pos, yielded, sent>>
vars == <<runVars, execVars, evalVars, gwVars, streamVars, genVars>>

None == [none |-> TRUE]

\* dict.get(key, default)
Get(d, key, default) == IF key \in DOMAIN d THEN d[key] ELSE default

Last(s) == s[Len(s)]

----------------------------------------------------------------------------
(***************************************************************************)
(* Python floats (IEEE 754 binary64, round to nearest, ties to even)       *)
(*                                                                         *)
(* The scores the Evaluator adds and divides are Python floats.  A         *)
(* non-negative float x is kept as the natural number x * 2^GridBits,      *)
(* written in Limbs digits of base LimbBase, least significant first.      *)
(* Every float that occurs (scores of at least 0.01, their sums, a mean    *)
(* over a few steps) is a multiple of 2^-GridBits below 2^(16*Limbs -      *)
(* GridBits), and rounding drops fewer than 16 bits.                       *)
(***************************************************************************)
LimbBase == 65536
Limbs == 5
GridBits == 62
Mantissa == 53

FZero == [i \in 1..Limbs |-> 0]

\* 1.0: 2^62 = 2^14 * (2^16)^3
FOne == [i \in 1..Limbs |-> IF i = 4 THEN 16384 ELSE 0]

RECURSIVE AddFrom(_, _, _, _)
AddFrom(a, b, i, carry) ==
    IF i > Limbs THEN <<>>
    ELSE LET t == a[i] + b[i] + carry IN
         <<t % LimbBase>> \o AddFrom(a, b, i + 1, t \div LimbBase)

\* a + b, exact
BigAdd(a, b) == AddFrom(a, b, 1, 0)

RECURSIVE MulFrom(_, _, _, _)
MulFrom(a, k, i, carry) ==
    IF i > Limbs THEN <<>>
    ELSE LET t == a[i] * k + carry IN
         <<t % LimbBase>> \o MulFrom(a, k, i + 1, t \div LimbBase)

RECURSIVE SubFrom(_, _, _, _)
SubFrom(a, b, i, borrow) ==
    IF i > Limbs THEN <<>>
    ELSE LET t == LimbBase + a[i] - b[i] - borrow IN
         <<t % LimbBase>> \o SubFrom(a, b, i + 1, IF t < LimbBase THEN 1 ELSE 0)

\* a - b for a >= b, exact
BigSub(a, b) == SubFrom(a, b, 1, 0)

RECURSIVE DiffFrom(_, _, _, _)
DiffFrom(a, b, i, d) ==
    IF i = 0 THEN d ELSE DiffFrom(a, b, i - 1, d * LimbBase + a[i] - b[i])

\* a - b as an integer, for a and b less than LimbBase apart
BigDiff(a, b) == DiffFrom(a, b, Limbs, 0)

\* the natural n < LimbBase^2 in limbs
Small(n) ==
    [i \in 1..Limbs |-> IF i = 1 THEN n % LimbBase
                        ELSE IF i = 2 THEN n \div LimbBase ELSE 0]

\* a * k for a small natural k, exact
BigMulSmall(a, k) == MulFrom(a, k, 1, 0)

RECURSIVE DivFrom(_, _, _, _)
DivFrom(a, d, i, r) ==
    IF i = 0 THEN [q |-> <<>>, r |-> r]
    ELSE LET t == r * LimbBase + a[i]
             rest == DivFrom(a, d, i - 1, t % d) IN
         [q |-> Append(rest.q, t \div d), r |-> rest.r]

\* quotient and remainder of a by a small natural d
BigDivSmall(a, d) == DivFrom(a, d, Limbs, 0)

RECURSIVE GeFrom(_, _, _)
GeFrom(a, b, i) ==
    IF i = 0 THEN TRUE
    ELSE IF a[i] # b[i] THEN a[i] > b[i]
    ELSE GeFrom(a, b, i - 1)

\* a >= b
BigGe(a, b) == GeFrom(a, b, Limbs)

RECURSIVE SmallBits(_)
SmallBits(n) == IF n = 0 THEN 0 ELSE 1 + SmallBits(n \div 2)

\* number of significant bits of a
BitLength(a) ==
    IF a = FZero THEN 0
    ELSE LET top == CHOOSE i \in 1..Limbs : a[i] # 0 /\ \A j \in (i + 1)..Limbs : a[j] = 0 IN
         16 * (top - 1) + SmallBits(a[top])

\* The float nearest to a + f, where f < 1 is the part of the exact value
\* below the grid: frac is 0 for f = 0, 1 for f < 1/2, 2 for f = 1/2 and 3
\* for f > 1/2.  Ties go to the even mantissa.
RoundToFloat(a, frac) ==
    LET p == BitLength(a) - Mantissa IN
    IF p <= 0
    THEN IF frac = 3 \/ (frac = 2 /\ a[1] % 2 = 1)
         THEN BigAdd(a, [i \in 1..Limbs |-> IF i = 1 THEN 1 ELSE 0])
         ELSE a
    ELSE LET unit == 2 ^ p
             low == a[1] % unit
             half == unit \div 2
             kept == [a EXCEPT ![1] = a[1] - low]
             odd == IF p = 16 THEN a[2] % 2 = 1 ELSE (a[1] \div unit) % 2 = 1
             up == \/ low > half
                   \/ low = half /\ frac > 0
                   \/ low = half /\ frac = 0 /\ odd IN
         IF up THEN BigAdd(kept, [i \in 1..Limbs |-> IF i = 1 THEN unit ELSE 0])
         ELSE kept

\* float division of the float a by the integer d
FDivInt(a, d) ==
    LET qr == BigDivSmall(a, d)
        frac == IF qr.r = 0 THEN 0
                ELSE IF 2 * qr.r < d THEN 1
                ELSE IF 2 * qr.r = d THEN 2 ELSE 3 IN
    RoundToFloat(qr.q, frac)

\* float addition
FAdd(a, b) == RoundToFloat(BigAdd(a, b), 0)

\* the float a decimal with two fractional digits denotes: h is the number
\* in hundredths (float("0.07") for 7)
Float(h) == FDivInt(BigMulSmall(FOne, h), 100)

\* a >= b on floats
FGe(a, b) == BigGe(a, b)

----------------------------------------------------------------------------
(***************************************************************************)
(* Planner: src/src/planning.py                                            *)
(***************************************************************************)

goal == "goal"

\* SubTask(id, description, reasoning, dependencies, status="pending", result=None)
SubTask(id, description, dependencies, status) ==
    [id |-> id, description |-> description, dependencies |-> dependencies,
     status |-> status, result |-> None]

Plan(g, subtasks, strategy) == [goal |-> g, subtasks |-> subtasks, strategy |-> strategy]

NoPlan == [none |-> TRUE]

\* The except branch of create_plan, as written: the single-subtask plan.
FallbackPlan(g) == Plan(g, <<SubTask(1, g, <<>>, "pending")>>, "Direct execution")

\* json.loads(content) succeeds
Parses(reply) == reply.kind = "json"

\* task["description"] raises KeyError for some subtask of the reply
LacksDescription(reply) ==
    \E i \in 1..Len(Get(reply.data, "subtasks", <<>>)) :
        "description" \notin DOMAIN Get(reply.data, "subtasks", <<>>)[i]

\* The list comprehension of create_plan (idx is 0-based in the source).
PlannedSubtasks(data) ==
    LET tasks == Get(data, "subtasks", <<>>) IN
    [i \in 1..Len(tasks) |->
        SubTask(Get(tasks[i], "id", i), tasks[i]["description"],
                Get(tasks[i], "dependencies", <<>>), "pending")]

\* `from datetime import datetime` is a statement of the try block, placed
\* after json.loads and after the list comprehension: the name is local to
\* create_plan and is bound only once that statement has run.
DatetimeBound(reply) == Parses(reply) /\ ~LacksDescription(reply)

\* The except branch of create_plan evaluates datetime.now() while building
\* the fallback Plan.
CreatePlanHandler(g, reply) ==
    IF DatetimeBound(reply)
    THEN [raised |-> "none", plan |-> FallbackPlan(g)]
    ELSE [raised |-> "UnboundLocalError", plan |-> NoPlan]

create_plan(g, reply) ==
    IF ~Parses(reply) THEN CreatePlanHandler(g, reply)            \* JSONDecodeError
    ELSE IF LacksDescription(reply) THEN CreatePlanHandler(g, reply)  \* KeyError
    ELSE [raised |-> "none",
          plan |-> Plan(g, PlannedSubtasks(reply.data), Get(reply.data, "strategy", ""))]

InList(x, list) == \E k \in 1..Len(list) : list[k] = x

\* Mutant of ReplannedSubtasks: every subtask of the revision starts pending.
ReplannedSubtasksAllPending(data, completed) ==
    LET tasks == Get(data, "subtasks", <<>>) IN
    [i \in 1..Len(tasks) |->
        SubTask(Get(tasks[i], "id", i), tasks[i]["description"],
                Get(tasks[i], "dependencies", <<>>), "pending")]

\* The list comprehension of replan.
ReplannedSubtasks(data, completed) ==
    LET tasks == Get(data, "subtasks", <<>>) IN
    [i \in 1..Len(tasks) |->
        SubTask(Get(tasks[i], "id", i), tasks[i]["description"],
                Get(tasks[i], "dependencies", <<>>),
                IF InList(Get(tasks[i], "id", i), completed) THEN "completed" ELSE "pending")]

\* Mutant of replan: a revision that cannot be used gives a fresh one-subtask
\* plan instead of the plan passed in.
replanStartsOver(original_plan, completed, reply) ==
    IF ~Parses(reply) \/ LacksDescription(reply)
    THEN [same |-> FALSE, plan |-> FallbackPlan(original_plan.goal)]
    ELSE [same |-> FALSE,
          plan |-> Plan(original_plan.goal, ReplannedSubtasks(reply.data, completed),
                        Get(reply.data, "strategy", original_plan.strategy))]

\* replan returns either the object it was given (same = TRUE) or a new Plan.
replan(original_plan, completed, reply) ==
    IF ~Parses(reply) \/ LacksDescription(reply)
    THEN [same |-> TRUE, plan |-> original_plan]
    ELSE [same |-> FALSE,
          plan |-> Plan(original_plan.goal, ReplannedSubtasks(reply.data, completed),
                        Get(reply.data, "strategy", original_plan.strategy))]

----------------------------------------------------------------------------
(***************************************************************************)
(* Evaluator: src/src/evaluation.py                                        *)
(***************************************************************************)

StepEvaluation(step_id, success, score, issues) ==
    [step_id |-> step_id, success |-> success, score |-> score, issues |-> issues]

\* Mutant of evaluate_step: the fallback reports success whatever the result.
evaluate_stepOptimistic(step_id, actual_result, reply) ==
    IF Parses(reply)
    THEN StepEvaluation(step_id, Get(reply.data, "success", FALSE),
                        Get(reply.data, "score", 0), Get(reply.data, "issues", <<>>))
    ELSE StepEvaluation(step_id, TRUE, 100, <<>>)

\* A score is written in hundredths: 100 is the float 1.0, 70 the float 0.7.
evaluate_step(step_id, actual_result, reply) ==
    IF Parses(reply)
    THEN StepEvaluation(step_id, Get(reply.data, "success", FALSE),
                        Get(reply.data, "score", 0), Get(reply.data, "issues", <<>>))
    ELSE LET success == Get(actual_result, "success", FALSE) IN
         StepEvaluation(step_id, success, IF success THEN 100 ELSE 0,
                        IF success THEN <<>>
                        ELSE <<Get(actual_result, "error", "Unknown error")>>)

\* The builtin sum() of the interpreter that runs the code.  The repository
\* names no Python version: up to CPython 3.11 sum() adds floats from left to
\* right, from CPython 3.12 on it adds them with a compensation term.
Summations == {"sequential", "compensated"}

\* float additions from left to right (the int 0 sum starts from adds nothing)
RECURSIVE SumSequential(_)
SumSequential(evals) ==
    IF evals = <<>> THEN FZero
    ELSE FAdd(SumSequential(SubSeq(evals, 1, Len(evals) - 1)),
              Float(evals[Len(evals)].score))

\* Compensated summation: every addition t = total + x leaves its rounding
\* error (total - t) + x, or (x - t) + total, in c.  The error of a float
\* addition is a float, and the errors, a few grid units each, add up without
\* rounding: c is kept as an integer number of grid units.
RECURSIVE CompensatedFrom(_, _, _, _)
CompensatedFrom(evals, i, total, c) ==
    IF i > Len(evals) THEN [total |-> total, c |-> c]
    ELSE LET exact == BigAdd(total, Float(evals[i].score))
             t == RoundToFloat(exact, 0) IN
         CompensatedFrom(evals, i + 1, t, c + BigDiff(exact, t))

\* the first score is added to the int 0; the result is total + c when c is
\* not zero
SumCompensated(evals) ==
    IF evals = <<>> THEN FZero
    ELSE LET s == CompensatedFrom(evals, 2, Float(evals[1].score), 0) IN
         IF s.c = 0 THEN s.total
         ELSE IF s.c > 0 THEN RoundToFloat(BigAdd(s.total, Small(s.c)), 0)
         ELSE RoundToFloat(BigSub(s.total, Small(0 - s.c)), 0)

\* sum(e.score for e in step_evaluations) under the summation py
SumScores(py, evals) ==
    IF py = "sequential" THEN SumSequential(evals) ELSE SumCompensated(evals)

\* Mutant of OverallScore: no evaluations count as a full score.
OverallScoreEmptyIsOne(py, evals) ==
    IF Len(evals) > 0 THEN FDivInt(SumScores(py, evals), Len(evals)) ELSE FOne

\* Mutant of OverallScore: the divisor is one too large.
OverallScoreOffByOne(py, evals) ==
    IF Len(evals) > 0 THEN FDivInt(SumScores(py, evals), Len(evals) + 1) ELSE FZero

\* overall_score, a float
OverallScore(py, evals) ==
    IF Len(evals) > 0 THEN FDivInt(SumScores(py, evals), Len(evals)) ELSE FZero

\* overall_score >= self.success_threshold
OverallSuccess(score) == FGe(score, Float(success_threshold))

\* Mutant of evaluate_final: a verdict in the narrative reply is taken over.
evaluate_finalTrustsReply(py, g, evals, final_output, reply) ==
    [goal |-> g,
     overall_success |->
        IF Parses(reply)
        THEN Get(reply.data, "overall_success", OverallSuccess(OverallScore(py, evals)))
        ELSE OverallSuccess(OverallScore(py, evals)),
     overall_score |-> OverallScore(py, evals),
     step_evaluations |-> evals,
     summary |-> IF Parses(reply) THEN Get(reply.data, "summary", "") ELSE "template"]

\* py is the summation of the interpreter
evaluate_final(py, g, evals, final_output, reply) ==
    LET overall_score == OverallScore(py, evals) IN
    [goal |-> g,
     overall_success |-> OverallSuccess(overall_score),
     overall_score |-> overall_score,
     step_evaluations |-> evals,
     summary |-> IF Parses(reply) THEN Get(reply.data, "summary", "") ELSE "template"]

----------------------------------------------------------------------------
(***************************************************************************)
(* Executor results: src/src/execution.py                                  *)
(***************************************************************************)

ExecutionResult(success, output, error, log) ==
    [success |-> success, output |-> output, error |-> error, tool_calls |-> log]

\* Mutant of StopResult: the call succeeds only if every logged tool call did.
StopResultIfToolsSucceeded(content, log) ==
    ExecutionResult(\A k \in 1..Len(log) : log[k].result.success, content, "None", log)

\* return of line 180
StopResult(content, log) == ExecutionResult(TRUE, content, "None", log)

\* Mutant of ExhaustedResult: only the last entry of the log is returned.
ExhaustedResultLastOnly(log) ==
    ExecutionResult(FALSE, "Max iterations reached",
                    "Task execution exceeded maximum iterations",
                    IF log = <<>> THEN <<>> ELSE <<log[Len(log)]>>)

\* return of line 187
ExhaustedResult(log) ==
    ExecutionResult(FALSE, "Max iterations reached",
                    "Task execution exceeded maximum iterations", log)

----------------------------------------------------------------------------
(***************************************************************************)
(* Replies of the model to the Planner and the Evaluator                   *)
(***************************************************************************)

\* dependency lists the model may declare: none, one id (an earlier, the own,
\* a later or an unknown one), or two ids
DepChoices == {<<>>, <<1, 2>>} \cup {<<d>> : d \in 1..(MaxPlanLen + 1)}

\* the subtask objects the model may write at position i of a plan: the id
\* is absent (the position is used), the position, or 1 (a repeated id)
TaskChoices(i) ==
    {[id |-> j, description |-> "step", dependencies |-> d] : j \in {1, i}, d \in DepChoices}
    \cup {[description |-> "step", dependencies |-> d] : d \in DepChoices}
    \cup {[description |-> "step"]}

RECURSIVE TaskListsOfLen(_)
TaskListsOfLen(n) ==
    IF n = 0 THEN {<<>>}
    ELSE {Append(s, t) : s \in TaskListsOfLen(n - 1), t \in TaskChoices(n)}

TaskLists == UNION {TaskListsOfLen(n) : n \in 0..MaxPlanLen}

\* subtask lists with a subtask that has no description
MissingDescriptionLists ==
    {<<[id |-> 1]>>, <<[description |-> "step"], [id |-> 2, dependencies |-> <<1>>]>>}

Unparsable == [kind |-> "unparsable"]

JsonReply(data) == [kind |-> "json", data |-> data]

PlannerReplies ==
    {Unparsable}
    \cup {JsonReply([strategy |-> "strategy", subtasks |-> s]) :
            s \in TaskLists \cup MissingDescriptionLists}

\* revisions the model may write when asked to replan
Revisions ==
    {<<>>,
     <<[id |-> 1, description |-> "retry"]>>,
     <<[description |-> "retry"], [description |-> "more", dependencies |-> <<1>>]>>}

ReplanReplies ==
    {Unparsable, JsonReply([subtasks |-> <<[id |-> 1]>>])}
    \cup {JsonReply([subtasks |-> s]) : s \in Revisions}

\* scoring replies run receives: unparsable, or a verdict with a score
EvaluatorReplies ==
    {Unparsable, JsonReply([success |-> TRUE, score |-> 50])}

\* narrative replies run receives: unparsable, or the asked-for summary
NarrativeReplies ==
    {Unparsable, JsonReply([summary |-> "narrative"])}

ReplyClass(reply) ==
    IF ~Parses(reply) THEN "unparsable"
    ELSE IF LacksDescription(reply) THEN "missing_description"
    ELSE "json"

----------------------------------------------------------------------------
(***************************************************************************)
(* Orchestrator: GeneralPurposeAgent.run, src/src/agent.py                 *)
(***************************************************************************)

Configs == [step_evaluation : BOOLEAN, allow_replanning : BOOLEAN, thinking_enabled : BOOLEAN]

Call(op, pos) == [op |-> op, pos |-> pos]

\* the calls of the thinking module, made only when thinking is enabled
Think(pos) == IF config.thinking_enabled THEN <<Call("think", pos)>> ELSE <<>>

\* self.current_plan
CurrentPlan == IF current_plan = "revised" THEN revised_plan ELSE initial_plan

\* the list object the for statement of run iterates
LoopSubtasks == initial_plan.subtasks

\* Mutant of DepsMet: only the first dependency is looked at.
DepsMetFirstOnly(subtask, completed) ==
    IF Len(subtask.dependencies) = 0 THEN TRUE
    ELSE InList(subtask.dependencies[1], completed)

\* all(dep in completed_subtasks for dep in subtask.dependencies)
DepsMet(subtask, completed) ==
    \A k \in 1..Len(subtask.dependencies) : InList(subtask.dependencies[k], completed)

\* Mutant of LoopNext: at the end of the list the loop goes back to a skipped
\* subtask (deferred instead of skipped).
LoopDefer(i) ==
    IF i >= Len(initial_plan.subtasks) /\ skipped # {}
    THEN CHOOSE p \in skipped : \A q \in skipped : p <= q
    ELSE i + 1

\* Mutant of LoopNext: after a replan the loop starts over from the first
\* subtask.
LoopRestart(i) ==
    IF pc = "after" /\ ~result.success /\ config.allow_replanning THEN 1 ELSE i + 1

\* the for statement moves to the next element of the list it iterates
LoopNext(i) == i + 1

EvalIdle ==
    /\ v_pc = "idle"
    /\ v_actual_result = None
    /\ eval_steps = <<>>
    /\ eval_reply = "none"
    /\ step_out = None
    /\ final_out = None

\* StreamHandler.__init__ (lines 52-55), and nothing happening on the handler
StreamIdle ==
    /\ subscribers = <<>>
    /\ event_history = <<>>
    /\ frames = <<>>
    /\ deliveries = <<>>
    /\ emitted = <<>>
    /\ unsubscribed = {}
    /\ printed = 0
    /\ handler_calls = 0

GenIdle ==
    /\ rs_pc = <<>>
    /\ rs_calls = 0
    /\ gen_pos = <<>>
    /\ yielded = <<>>
    /\ sent = <<>>

GatewayIdle ==
    /\ g_pc = "idle"
    /\ attempt_number = 0
    /\ attempts = <<>>
    /\ waits = <<>>
    /\ outcomes = <<>>

ExecIdle ==
    /\ e_pc = "idle"
    /\ thinking_module = FALSE
    /\ messages = <<>>
    /\ iterations = 0
    /\ completions = <<>>
    /\ tool_calls = <<>>
    /\ tc = 0
    /\ tool_calls_made = <<>>
    /\ executions = <<>>
    /\ exec_result = None
    /\ e_raised = "none"

Init ==
    /\ config \in Configs
    /\ pc = "plan"
    /\ raised = "none"
    /\ planner_reply = "none"
    /\ initial_plan = NoPlan
    /\ revised_plan = NoPlan
    /\ current_plan = "None"
    /\ idx = 0
    /\ result = None
    /\ step_evaluations = <<>>
    /\ completed_subtasks = <<>>
    /\ skipped = {}
    /\ calls = <<>>
    /\ final_evaluation = None
    /\ task_history = <<>>
    /\ ExecIdle
    /\ EvalIdle
    /\ GatewayIdle
    /\ StreamIdle
    /\ GenIdle

\* Phase 1 (lines 147-154): think, then create_plan.
CreatePlan ==
    /\ pc = "plan"
    /\ \E reply \in PlannerReplies :
        LET r == create_plan(goal, reply) IN
        /\ planner_reply' = ReplyClass(reply)
        /\ calls' = calls \o Think(0) \o <<Call("create_plan", 0)>>
        /\ IF r.raised = "none"
           THEN /\ initial_plan' = r.plan
                /\ current_plan' = "initial"
                /\ idx' = 1
                /\ pc' = "loop"
                /\ raised' = raised
           ELSE /\ pc' = "raised"
                /\ raised' = r.raised
                /\ UNCHANGED <<initial_plan, current_plan, idx>>
    /\ UNCHANGED <<config, revised_plan, result, step_evaluations, completed_subtasks,
                   skipped, final_evaluation, task_history, execVars, evalVars, gwVars, streamVars, genVars>>

AtSubtask == pc = "loop" /\ idx <= Len(LoopSubtasks)

\* Mutant of SkipSubtask: a skipped subtask is marked failed.
SkipSubtaskMarked ==
    /\ AtSubtask
    /\ ~DepsMet(LoopSubtasks[idx], completed_subtasks)
    /\ skipped' = skipped \cup {idx}
    /\ initial_plan' = [initial_plan EXCEPT !.subtasks[idx].status = "failed"]
    /\ idx' = LoopNext(idx)
    /\ UNCHANGED <<config, pc, raised, planner_reply, revised_plan,
                   current_plan, result, step_evaluations, completed_subtasks, calls,
                   final_evaluation, task_history, execVars, evalVars, gwVars, streamVars, genVars>>

\* Mutant of SkipSubtask: a skipped subtask gets a failing step evaluation.
SkipSubtaskEvaluated ==
    /\ AtSubtask
    /\ ~DepsMet(LoopSubtasks[idx], completed_subtasks)
    /\ skipped' = skipped \cup {idx}
    /\ step_evaluations' =
          Append(step_evaluations, StepEvaluation(LoopSubtasks[idx].id, FALSE, 0, <<>>))
    /\ idx' = LoopNext(idx)
    /\ UNCHANGED <<config, pc, raised, planner_reply, initial_plan, revised_plan,
                   current_plan, result, completed_subtasks, calls,
                   final_evaluation, task_history, execVars, evalVars, gwVars, streamVars, genVars>>

\* Lines 174-177: the dependency check fails, continue.
SkipSubtask ==
    /\ AtSubtask
    /\ ~DepsMet(LoopSubtasks[idx], completed_subtasks)
    /\ skipped' = skipped \cup {idx}
    /\ idx' = LoopNext(idx)
    /\ UNCHANGED <<config, pc, raised, planner_reply, initial_plan, revised_plan,
                   current_plan, result, step_evaluations, completed_subtasks, calls,
                   final_evaluation, task_history, execVars, evalVars, gwVars, streamVars, genVars>>

\* Mutant of ExecuteSubtask: the step is evaluated whatever the configuration.
ExecuteSubtaskAlwaysEvaluate ==
    /\ AtSubtask
    /\ DepsMet(LoopSubtasks[idx], completed_subtasks)
    /\ \E r \in {StopResult("text", <<>>), ExhaustedResult(<<>>)} :
        /\ result' = r
        /\ initial_plan' =
              [initial_plan EXCEPT
                 !.subtasks[idx].status = IF r.success THEN "completed" ELSE "failed",
                 !.subtasks[idx].result =
                     [success |-> r.success, output |-> r.output, error |-> r.error]]
    /\ calls' = Append(calls, Call("execute_task", idx))
    /\ pc' = "evaluate"
    /\ UNCHANGED <<config, raised, planner_reply, revised_plan, current_plan, idx,
                   step_evaluations, completed_subtasks, skipped, final_evaluation,
                   task_history, execVars, evalVars, gwVars, streamVars, genVars>>

\* Mutant of ExecuteSubtask: the step evaluation is left out.
ExecuteSubtaskNoEvaluate ==
    /\ AtSubtask
    /\ DepsMet(LoopSubtasks[idx], completed_subtasks)
    /\ \E r \in {StopResult("text", <<>>), ExhaustedResult(<<>>)} :
        /\ result' = r
        /\ initial_plan' =
              [initial_plan EXCEPT
                 !.subtasks[idx].status = IF r.success THEN "completed" ELSE "failed",
                 !.subtasks[idx].result =
                     [success |-> r.success, output |-> r.output, error |-> r.error]]
    /\ calls' = Append(calls, Call("execute_task", idx))
    /\ pc' = "after"
    /\ UNCHANGED <<config, raised, planner_reply, revised_plan, current_plan, idx,
                   step_evaluations, completed_subtasks, skipped, final_evaluation,
                   task_history, execVars, evalVars, gwVars, streamVars, genVars>>

\* Lines 185-195: execute_task returns, status and result are stored.
ExecuteSubtask ==
    /\ AtSubtask
    /\ DepsMet(LoopSubtasks[idx], completed_subtasks)
    /\ \E r \in {StopResult("text", <<>>), ExhaustedResult(<<>>)} :
        /\ result' = r
        /\ initial_plan' =
              [initial_plan EXCEPT
                 !.subtasks[idx].status = IF r.success THEN "completed" ELSE "failed",
                 !.subtasks[idx].result =
                     [success |-> r.success, output |-> r.output, error |-> r.error]]
    /\ calls' = Append(calls, Call("execute_task", idx))
    /\ pc' = IF config.step_evaluation THEN "evaluate" ELSE "after"
    /\ UNCHANGED <<config, raised, planner_reply, revised_plan, current_plan, idx,
                   step_evaluations, completed_subtasks, skipped, final_evaluation,
                   task_history, execVars, evalVars, gwVars, streamVars, genVars>>

\* Lines 198-205.
EvaluateStep ==
    /\ pc = "evaluate"
    /\ \E reply \in EvaluatorReplies :
        step_evaluations' =
            Append(step_evaluations,
                   evaluate_step(LoopSubtasks[idx].id, LoopSubtasks[idx].result, reply))
    /\ calls' = Append(calls, Call("evaluate_step", idx))
    /\ pc' = "after"
    /\ UNCHANGED <<config, raised, planner_reply, initial_plan, revised_plan, current_plan,
                   idx, result, completed_subtasks, skipped, final_evaluation,
                   task_history, execVars, evalVars, gwVars, streamVars, genVars>>

\* Lines 210-211.
SubtaskSucceeded ==
    /\ pc = "after"
    /\ result.success
    /\ completed_subtasks' = Append(completed_subtasks, LoopSubtasks[idx].id)
    /\ idx' = LoopNext(idx)
    /\ pc' = "loop"
    /\ UNCHANGED <<config, raised, planner_reply, initial_plan, revised_plan, current_plan,
                   result, step_evaluations, skipped, calls, final_evaluation,
                   task_history, execVars, evalVars, gwVars, streamVars, genVars>>

\* Lines 212-219, replanning disabled.
SubtaskFailed ==
    /\ pc = "after"
    /\ ~result.success
    /\ ~config.allow_replanning
    /\ calls' = calls \o Think(idx)
    /\ idx' = LoopNext(idx)
    /\ pc' = "loop"
    /\ UNCHANGED <<config, raised, planner_reply, initial_plan, revised_plan, current_plan,
                   result, step_evaluations, completed_subtasks, skipped,
                   final_evaluation, task_history, execVars, evalVars, gwVars, streamVars, genVars>>

\* Lines 212-230: self.current_plan = replan(self.current_plan, ...).
Replan ==
    /\ pc = "after"
    /\ ~result.success
    /\ config.allow_replanning
    /\ \E reply \in ReplanReplies :
        LET r == replan(CurrentPlan, completed_subtasks, reply) IN
        /\ IF r.same
           THEN UNCHANGED <<revised_plan, current_plan>>
           ELSE revised_plan' = r.plan /\ current_plan' = "revised"
        /\ calls' = calls \o Think(idx)
                    \o <<[op |-> "replan", pos |-> idx, same |-> r.same,
                          reply |-> ReplyClass(reply),
                          completed |-> completed_subtasks,
                          ids |-> [k \in 1..Len(r.plan.subtasks) |-> r.plan.subtasks[k].id]]>>
    /\ idx' = LoopNext(idx)
    /\ pc' = "loop"
    /\ UNCHANGED <<config, raised, planner_reply, initial_plan, result, step_evaluations,
                   completed_subtasks, skipped, final_evaluation, task_history, execVars, evalVars, gwVars, streamVars, genVars>>

\* final_output of line 239
FinalOutput ==
    IF Len(CurrentPlan.subtasks) > 0 THEN Last(CurrentPlan.subtasks).result ELSE None

\* Lines 236-258: evaluate_final, save_task, return.
FinalEvaluation ==
    /\ pc = "loop"
    /\ idx > Len(LoopSubtasks)
    /\ \E py \in Summations, reply \in NarrativeReplies :
        LET e == evaluate_final(py, goal, step_evaluations, FinalOutput, reply) IN
        /\ final_evaluation' = e
        /\ task_history' =
              Append(task_history, [goal |-> goal, plan |-> CurrentPlan, evaluation |-> e])
    /\ calls' = Append(calls, [op |-> "evaluate_final", pos |-> idx,
                               final_output |-> FinalOutput,
                               step_evaluations |-> step_evaluations])
    /\ pc' = "done"
    /\ UNCHANGED <<config, raised, planner_reply, initial_plan, revised_plan, current_plan,
                   idx, result, step_evaluations, completed_subtasks, skipped, execVars, evalVars, gwVars, streamVars, genVars>>

\* run is about to make a call that reaches the Model Gateway
GatewayCallNext ==
    \/ pc = "plan"
    \/ AtSubtask /\ DepsMet(LoopSubtasks[idx], completed_subtasks)
    \/ pc = "evaluate"
    \/ pc = "after" /\ ~result.success
          /\ (config.thinking_enabled \/ config.allow_replanning)
    \/ pc = "loop" /\ idx > Len(LoopSubtasks)

\* Mutant of GatewayFailure: a failure inside execute_task is caught there and
\* handed to run as a failed ExecutionResult.
GatewayFailureAsResult ==
    /\ GatewayCallNext
    /\ IF AtSubtask
       THEN /\ result' = ExecutionResult(FALSE, None, "Gateway unavailable", <<>>)
            /\ initial_plan' =
                  [initial_plan EXCEPT
                     !.subtasks[idx].status = "failed",
                     !.subtasks[idx].result =
                         [success |-> FALSE, output |-> None,
                          error |-> "Gateway unavailable"]]
            /\ pc' = "after"
            /\ raised' = raised
       ELSE /\ pc' = "raised"
            /\ raised' = "RetryError"
            /\ UNCHANGED <<result, initial_plan>>
    /\ UNCHANGED <<config, planner_reply, revised_plan, current_plan, idx,
                   step_evaluations, completed_subtasks, skipped, calls,
                   final_evaluation, task_history, execVars, evalVars, gwVars, streamVars, genVars>>

\* chat_completion fails on each of its attempts: the exception is caught by
\* none of think, create_plan, execute_task, evaluate_step, replan,
\* evaluate_final and run.
\* The request that fails is the first one of the step, or, where run thinks
\* before it plans (lines 147-152 before create_plan, 214-219 before replan),
\* the planner's request after the think call has returned.
ThinksBeforePlanner ==
    /\ config.thinking_enabled
    /\ \/ pc = "plan"
       \/ pc = "after" /\ ~result.success /\ config.allow_replanning

GatewayFailure ==
    /\ GatewayCallNext
    /\ pc' = "raised"
    /\ raised' = "RetryError"
    /\ \/ calls' = calls
       \/ /\ ThinksBeforePlanner
          /\ calls' = calls \o Think(IF pc = "plan" THEN 0 ELSE idx)
    /\ UNCHANGED <<config, planner_reply, initial_plan, revised_plan, current_plan, idx,
                   result, step_evaluations, completed_subtasks, skipped,
                   final_evaluation, task_history, execVars, evalVars, gwVars, streamVars, genVars>>

\* line 185: execute_task raises the TypeError of execution.py:138 (the model
\* requested a registered tool with arguments that are JSON but not an
\* object, or an object with the key "self"); run has no handler
ExecutorTypeError ==
    /\ AtSubtask
    /\ DepsMet(LoopSubtasks[idx], completed_subtasks)
    /\ pc' = "raised"
    /\ raised' = "TypeError"
    /\ UNCHANGED <<config, planner_reply, initial_plan, revised_plan, current_plan, idx,
                   result, step_evaluations, completed_subtasks, skipped, calls,
                   final_evaluation, task_history, execVars, evalVars, gwVars, streamVars,
                   genVars>>

Next ==
    \/ CreatePlan
    \/ SkipSubtask
    \/ ExecuteSubtask
    \/ EvaluateStep
    \/ SubtaskSucceeded
    \/ SubtaskFailed
    \/ Replan
    \/ FinalEvaluation
    \/ GatewayFailure
    \/ ExecutorTypeError

Spec == Init /\ [][Next]_vars

\* the position run is at: the statement and the index of the for loop
position == <<pc, idx>>

\* Lines 236-258 seen from the position of run: FinalEvaluation is enabled
\* exactly when Returns is, and changes the position as Returns does.
Returns ==
    /\ pc = "loop"
    /\ idx > Len(LoopSubtasks)
    /\ pc' = "done"
    /\ idx' = idx

\* a step of run in which the call it makes returns
Proceed ==
    \/ CreatePlan
    \/ SkipSubtask
    \/ ExecuteSubtask
    \/ EvaluateStep
    \/ SubtaskSucceeded
    \/ SubtaskFailed
    \/ Replan
    \/ Returns

\* run is one sequential coroutine and nothing else is scheduled: whenever
\* it has a next statement it executes it, and the awaited call returns or
\* raises (GatewayFailure stays possible, it is not forced).
SpecFair == Init /\ [][Next]_vars /\ WF_position(Proceed)

\* ---- run from the point where create_plan has returned a longer plan

ChainLen == 3            \* subtasks of the plan the loop of run is given

\* dependency lists of these plans: none, the first id or the second
ChainDeps == {<<>>, <<1>>, <<2>>}

\* the subtask at position i: its id is the position or 1 (a repeated id)
ChainTaskChoices(i) ==
    {[id |-> j, description |-> "step", dependencies |-> d] : j \in {1, i}, d \in ChainDeps}

RECURSIVE ChainTaskLists(_)
ChainTaskLists(n) ==
    IF n = 0 THEN {<<>>}
    ELSE {Append(l, t) : l \in ChainTaskLists(n - 1), t \in ChainTaskChoices(n)}

\* Lines 147-169: create_plan has returned the plan it parsed from a reply
\* with ChainLen subtasks, and the for statement starts.
InitLoop ==
    /\ config \in Configs
    /\ pc = "loop"
    /\ raised = "none"
    /\ planner_reply = "json"
    /\ \E l \in ChainTaskLists(ChainLen) :
          initial_plan = create_plan(goal, JsonReply([strategy |-> "strategy",
                                                      subtasks |-> l])).plan
    /\ revised_plan = NoPlan
    /\ current_plan = "initial"
    /\ idx = 1
    /\ result = None
    /\ step_evaluations = <<>>
    /\ completed_subtasks = <<>>
    /\ skipped = {}
    /\ calls = Think(0) \o <<Call("create_plan", 0)>>
    /\ final_evaluation = None
    /\ task_history = <<>>
    /\ ExecIdle
    /\ EvalIdle
    /\ GatewayIdle
    /\ StreamIdle
    /\ GenIdle

\* Phases 2 and 3 of run (lines 169-258)
NextLoop ==
    \/ SkipSubtask
    \/ ExecuteSubtask
    \/ EvaluateStep
    \/ SubtaskSucceeded
    \/ SubtaskFailed
    \/ Replan
    \/ FinalEvaluation
    \/ GatewayFailure
    \/ ExecutorTypeError

SpecLoop == InitLoop /\ [][NextLoop]_vars

----------------------------------------------------------------------------
(***************************************************************************)
(* Executor: ExecutionEngine.execute_task, src/src/execution.py            *)
(***************************************************************************)

\* message.content of a completion that carries no text
ContentNone == "<None>"

\* names the ToolRegistry knows (one registered tool stands for them)
Registry == {"read_file"}

\* the arguments text of a tool invocation: a JSON object, a JSON object
\* with the key "self", the text "[1]", which json.loads turns into a list
\* (written [list |-> <<1>>]; it stands for every JSON value that is not an
\* object: lists, numbers, strings, true, false and null), or text that
\* json.loads rejects
ArgumentTexts ==
    {JsonReply([file_path |-> "a.txt"]), JsonReply([self |-> 1]),
     JsonReply([list |-> <<1>>]), Unparsable}

EmptyDict == <<>>

\* Mutant of ParseArguments: text that is not JSON is handed on as it is.
ParseArgumentsKeepText(text) == IF Parses(text) THEN text.data ELSE [raw |-> text]

\* lines 126-129
ParseArguments(text) == IF Parses(text) THEN text.data ELSE EmptyDict

\* line 138: the call tool.execute(**tool_args) takes a dict (not the list)
\* whose keys are keyword arguments of the bound method execute(self,
\* **kwargs): every key but "self"
AcceptsArguments(tool_args) ==
    IF tool_args = EmptyDict THEN TRUE
    ELSE tool_args # [list |-> <<1>>] /\ "self" \notin DOMAIN tool_args

\* the invocations the model may put at position k of the completion of
\* iteration it: at position 1 read_file with every arguments text or a name
\* the registry does not know, at position 2 read_file with the object
\* without the key "self" or with the list
ToolCallChoices(it, k) ==
    IF k = 1
    THEN {[id |-> <<it, k>>, name |-> "read_file", arguments |-> a] : a \in ArgumentTexts}
         \cup {[id |-> <<it, k>>, name |-> "no_such_tool",
                arguments |-> JsonReply([x |-> 1])]}
    ELSE {[id |-> <<it, k>>, name |-> "read_file", arguments |-> a] :
             a \in {JsonReply([file_path |-> "a.txt"]), JsonReply([list |-> <<1>>])}}

ToolCallBatches(it) ==
    {<<c>> : c \in ToolCallChoices(it, 1)}
    \cup {<<c, d>> : c \in ToolCallChoices(it, 1), d \in ToolCallChoices(it, 2)}

\* response.choices[0]: message.content, message.tool_calls, finish_reason
Completions(it) ==
    {[content |-> c, tool_calls |-> <<>>, finish_reason |-> "stop"] :
        c \in {ContentNone, "text"}}
    \cup {[content |-> "text", tool_calls |-> <<>>, finish_reason |-> "length"]}
    \cup {[content |-> ContentNone, tool_calls |-> b, finish_reason |-> "tool_calls"] :
            b \in ToolCallBatches(it)}

\* what a tool's execute returns: {"success": ..., "result" or "error": ...}
ToolResults == {[success |-> TRUE, result |-> "data"], [success |-> FALSE, error |-> "tool error"]}

\* line 112: {"role": "assistant", "content": message.content or ""}
AssistantMessage(completion) ==
    LET content == IF completion.content = ContentNone THEN "" ELSE completion.content IN
    IF completion.tool_calls # <<>>
    THEN [role |-> "assistant", content |-> content, tool_calls |-> completion.tool_calls]
    ELSE [role |-> "assistant", content |-> content]

\* Mutant of ToolMessage: every result carries the id of the first invocation
\* of its completion.
ToolMessageFirstId(tool_call, content) ==
    [role |-> "tool", tool_call_id |-> <<tool_call.id[1], 1>>, name |-> tool_call.name,
     content |-> content]

\* lines 146-151 and 165-173; content is the dict json.dumps serialises
ToolMessage(tool_call, content) ==
    [role |-> "tool", tool_call_id |-> tool_call.id, name |-> tool_call.name,
     content |-> content]

NotFound(name) == [success |-> FALSE, error |-> "not found"]

\* Mutant of NextToolCall: the invocations are taken last to first.
NextToolCallReversed(list, k) == list[Len(list) - k + 1]

\* the element the inner for statement hands out at position k
NextToolCall(list, k) == list[k]

\* self.tool_registry.get(tool_name) finds a tool
Registered(name) == name \in Registry

\* Mutant of NormalStop: any completion without tool invocation ends the call.
NormalStopAnyReason(completion) == completion.tool_calls = <<>>

\* line 179: the loop returns success
NormalStop(completion) == completion.tool_calls = <<>> /\ completion.finish_reason = "stop"

\* line 99
BudgetLeft(n) == n < max_iterations

RunIdle ==
    /\ config = [step_evaluation |-> TRUE, allow_replanning |-> TRUE, thinking_enabled |-> TRUE]
    /\ pc = "idle"
    /\ raised = "none"
    /\ planner_reply = "none"
    /\ initial_plan = NoPlan
    /\ revised_plan = NoPlan
    /\ current_plan = "None"
    /\ idx = 0
    /\ result = None
    /\ step_evaluations = <<>>
    /\ completed_subtasks = <<>>
    /\ skipped = {}
    /\ calls = <<>>
    /\ final_evaluation = None
    /\ task_history = <<>>

\* lines 64-97: the conversation starts with the system and the user message
InitExec ==
    /\ RunIdle
    /\ thinking_module \in BOOLEAN
    /\ e_pc = IF thinking_module THEN "think" ELSE "loop"
    /\ messages = <<[role |-> "system", content |-> "system prompt"],
                    [role |-> "user", content |-> "Task"]>>
    /\ iterations = 0
    /\ completions = <<>>
    /\ tool_calls = <<>>
    /\ tc = 0
    /\ tool_calls_made = <<>>
    /\ executions = <<>>
    /\ exec_result = None
    /\ e_raised = "none"
    /\ EvalIdle
    /\ GatewayIdle
    /\ StreamIdle
    /\ GenIdle

\* lines 88-93
ThinkAboutTask ==
    /\ e_pc = "think"
    /\ e_pc' = "loop"
    /\ UNCHANGED <<thinking_module, messages, iterations, completions, tool_calls, tc,
                   tool_calls_made, executions, exec_result, e_raised, runVars, evalVars, gwVars,
                   streamVars, genVars>>

\* lines 99-119 and 175-184: one completion is requested and its message appended
RequestCompletion ==
    /\ e_pc = "loop"
    /\ BudgetLeft(iterations)
    /\ iterations' = iterations + 1
    /\ \E completion \in Completions(iterations + 1) :
        /\ completions' = Append(completions, completion)
        /\ messages' = Append(messages, AssistantMessage(completion))
        /\ IF completion.tool_calls # <<>>
           THEN /\ tool_calls' = completion.tool_calls
                /\ tc' = 1
                /\ e_pc' = "tools"
                /\ exec_result' = exec_result
           ELSE /\ tool_calls' = <<>>
                /\ tc' = tc
                /\ IF NormalStop(completion)
                   THEN /\ exec_result' = StopResult(completion.content, tool_calls_made)
                        /\ e_pc' = "returned"
                   ELSE /\ exec_result' = exec_result
                        /\ e_pc' = "loop"
    /\ UNCHANGED <<thinking_module, tool_calls_made, executions, e_raised, runVars, evalVars,
                   gwVars, streamVars, genVars>>

\* Mutant of AfterToolCall: an unknown tool name aborts the call.
AbortOnUnknownTool ==
    IF ~Registered(tool_calls[tc].name) THEN "raised"
    ELSE IF tc = Len(tool_calls) THEN "loop" ELSE "tools"

\* where the inner for statement goes after an invocation (line 122)
AfterToolCall == IF tc = Len(tool_calls) THEN "loop" ELSE "tools"

\* lines 122-161: a registered tool is called with the parsed arguments.  When
\* the call accepts them the tool is executed, logged and its result appended,
\* and reflect_on_action reaches the Gateway after a successful tool; when it
\* does not, the call of line 138 raises TypeError, which nothing catches
ExecuteTool ==
    /\ e_pc = "tools"
    /\ LET tool_call == NextToolCall(tool_calls, tc)
           tool_args == ParseArguments(tool_call.arguments) IN
        /\ Registered(tool_call.name)
        /\ IF AcceptsArguments(tool_args)
           THEN /\ \E tool_result \in ToolResults :
                    /\ executions' = Append(executions, [id |-> tool_call.id,
                                                          args |-> tool_args,
                                                          seen |-> Len(messages)])
                    /\ tool_calls_made' =
                          Append(tool_calls_made, [tool |-> tool_call.name,
                                                   args |-> tool_args,
                                                   result |-> tool_result])
                    /\ messages' = Append(messages, ToolMessage(tool_call, tool_result))
                    /\ \E reflect_fails \in (IF thinking_module /\ tool_result.success
                                             THEN BOOLEAN ELSE {FALSE}) :
                        /\ e_pc' = IF reflect_fails THEN "raised" ELSE AfterToolCall
                        /\ e_raised' = IF reflect_fails THEN "RetryError" ELSE e_raised
                /\ tc' = tc + 1
           ELSE /\ e_pc' = "raised"
                /\ e_raised' = "TypeError"
                /\ UNCHANGED <<executions, tool_calls_made, messages, tc>>
    /\ UNCHANGED <<thinking_module, iterations, completions, tool_calls, exec_result, runVars,
                   evalVars, gwVars, streamVars, genVars>>

\* lines 163-173: the name is not in the registry
ToolNotFound ==
    /\ e_pc = "tools"
    /\ LET tool_call == NextToolCall(tool_calls, tc) IN
        /\ ~Registered(tool_call.name)
        /\ messages' = Append(messages, ToolMessage(tool_call, NotFound(tool_call.name)))
    /\ tc' = tc + 1
    /\ e_pc' = AfterToolCall
    /\ UNCHANGED <<thinking_module, iterations, completions, tool_calls, tool_calls_made,
                   executions, exec_result, e_raised, runVars, evalVars, gwVars, streamVars,
                   genVars>>

\* lines 186-192
ReturnExhausted ==
    /\ e_pc = "loop"
    /\ ~BudgetLeft(iterations)
    /\ exec_result' = ExhaustedResult(tool_calls_made)
    /\ e_pc' = "returned"
    /\ UNCHANGED <<thinking_module, messages, iterations, completions, tool_calls, tc,
                   tool_calls_made, executions, e_raised, runVars, evalVars, gwVars,
                   streamVars, genVars>>

\* chat_completion fails on each of its attempts, in think (line 89) or in the
\* loop (line 103): execute_task has no handler
ExecGatewayFailure ==
    /\ \/ e_pc = "think" /\ iterations' = iterations
       \/ e_pc = "loop" /\ BudgetLeft(iterations) /\ iterations' = iterations + 1
    /\ e_pc' = "raised"
    /\ e_raised' = "RetryError"
    /\ UNCHANGED <<thinking_module, messages, completions, tool_calls, tc,
                   tool_calls_made, executions, exec_result, runVars, evalVars, gwVars,
                   streamVars, genVars>>

NextExec ==
    \/ ThinkAboutTask
    \/ RequestCompletion
    \/ ExecuteTool
    \/ ToolNotFound
    \/ ReturnExhausted
    \/ ExecGatewayFailure

SpecExec == InitExec /\ [][NextExec]_vars

----------------------------------------------------------------------------
(***************************************************************************)
(* Evaluator called on its own: EvaluationModule.evaluate_step and         *)
(* evaluate_final, src/src/evaluation.py                                   *)
(***************************************************************************)

MaxSteps == 3            \* step evaluations passed to evaluate_final

\* scores of the step evaluations passed in, in hundredths
ScoreChoices == {0, 10, 70, 100}

RECURSIVE StepListsOfLen(_)
StepListsOfLen(n) ==
    IF n = 0 THEN {<<>>}
    ELSE {Append(l, StepEvaluation(n, sc >= 50, sc, <<>>)) :
            l \in StepListsOfLen(n - 1), sc \in ScoreChoices}

StepLists == UNION {StepListsOfLen(n) : n \in 0..MaxSteps}

\* actual_result dicts: the two run stores in subtask.result, a failure
\* without an error entry, and a dict without a success entry
ActualResults ==
    {[success |-> TRUE, output |-> "text", error |-> None],
     [success |-> FALSE, output |-> None,
      error |-> "Task execution exceeded maximum iterations"],
     [success |-> FALSE],
     [output |-> "text"]}

\* scoring replies: those of run, one without success and score, and one
\* whose score is 1.5
StepReplies ==
    EvaluatorReplies
    \cup {JsonReply([reasoning |-> "r"]), JsonReply([success |-> TRUE, score |-> 150])}

\* narrative replies: those of run, and one that carries a verdict and a
\* score of its own
FinalReplies ==
    NarrativeReplies
    \cup {JsonReply([summary |-> "verdict", overall_success |-> TRUE, overall_score |-> 100])}

\* the module is about to be called: evaluate_step with an actual_result, or
\* evaluate_final with a list of step evaluations
InitEval ==
    /\ RunIdle
    /\ ExecIdle
    /\ GatewayIdle
    /\ StreamIdle
    /\ GenIdle
    /\ \/ /\ v_pc = "step"
          /\ v_actual_result \in ActualResults
          /\ eval_steps = <<>>
       \/ /\ v_pc = "final"
          /\ v_actual_result = None
          /\ eval_steps \in StepLists
    /\ eval_reply = "none"
    /\ step_out = None
    /\ final_out = None

\* evaluate_step, lines 88-121, the Gateway answering
EvaluateStepCall ==
    /\ v_pc = "step"
    /\ \E reply \in StepReplies :
        /\ step_out' = evaluate_step(1, v_actual_result, reply)
        /\ eval_reply' = ReplyClass(reply)
    /\ v_pc' = "stepped"
    /\ UNCHANGED <<v_actual_result, eval_steps, final_out, runVars, execVars, gwVars, streamVars, genVars>>

\* evaluate_step, line 88: chat_completion raises; the call is made before
\* the try statement of line 91
EvaluateStepGatewayFailure ==
    /\ v_pc = "step"
    /\ v_pc' = "step_raised"
    /\ eval_reply' = "gateway_failure"
    /\ UNCHANGED <<v_actual_result, eval_steps, step_out, final_out,
                   runVars, execVars, gwVars, streamVars, genVars>>

\* evaluate_final, lines 139-215, the Gateway answering
EvaluateFinalCall ==
    /\ v_pc = "final"
    /\ \E py \in Summations, reply \in FinalReplies :
        /\ final_out' = evaluate_final(py, goal, eval_steps, None, reply)
        /\ eval_reply' = ReplyClass(reply)
    /\ v_pc' = "finalled"
    /\ UNCHANGED <<v_actual_result, eval_steps, step_out, runVars, execVars, gwVars, streamVars, genVars>>

\* evaluate_final, line 181: chat_completion raises inside the try statement,
\* whose handler (line 203) takes JSONDecodeError and KeyError only
EvaluateFinalGatewayFailure ==
    /\ v_pc = "final"
    /\ v_pc' = "final_raised"
    /\ eval_reply' = "gateway_failure"
    /\ UNCHANGED <<v_actual_result, eval_steps, step_out, final_out,
                   runVars, execVars, gwVars, streamVars, genVars>>

NextEval ==
    \/ EvaluateStepCall
    \/ EvaluateStepGatewayFailure
    \/ EvaluateFinalCall
    \/ EvaluateFinalGatewayFailure

SpecEval == InitEval /\ [][NextEval]_vars

----------------------------------------------------------------------------
(***************************************************************************)
(* Model Gateway client: AzureOpenAIClient.chat_completion under           *)
(* @retry(stop=stop_after_attempt(3), wait=wait_exponential(multiplier=1,  *)
(* min=4, max=10)), src/src/utils/llm_client.py line 49.  The decorator    *)
(* retries on every Exception and raises RetryError when it stops.         *)
(***************************************************************************)

MaxCalls == 3            \* chat_completion calls made one after the other

stop_after_attempt == 3
wait_multiplier == 1
wait_min == 4
wait_max == 10

\* Mutant of StopRetrying: one more attempt is allowed.
StopRetryingLate(n) == n >= stop_after_attempt + 1

\* stop_after_attempt(3): stop once the attempt number has reached 3
StopRetrying(n) == n >= stop_after_attempt

Min2(a, b) == IF a <= b THEN a ELSE b
Max2(a, b) == IF a >= b THEN a ELSE b

\* wait_exponential: multiplier * 2^(attempt - 1), kept within [min, max]
WaitSeconds(n) == Max2(wait_min, Min2(wait_multiplier * 2 ^ (n - 1), wait_max))

\* number of the call in progress or, between calls, of the next one
CurrentCall == Len(outcomes) + 1

InitGateway ==
    /\ RunIdle
    /\ ExecIdle
    /\ EvalIdle
    /\ StreamIdle
    /\ GenIdle
    /\ g_pc = "idle"
    /\ attempt_number = 0
    /\ attempts = <<>>
    /\ waits = <<>>
    /\ outcomes = <<>>

\* a caller invokes chat_completion: the first attempt is made
BeginCall ==
    /\ g_pc \in {"idle", "returned", "raised"}
    /\ Len(outcomes) < MaxCalls
    /\ g_pc' = "attempt"
    /\ attempt_number' = 1
    /\ UNCHANGED <<attempts, waits, outcomes, runVars, execVars, evalVars, streamVars, genVars>>

\* lines 81-82: the request succeeds and its response is returned
AttemptSucceeds ==
    /\ g_pc = "attempt"
    /\ attempts' = Append(attempts, [call |-> CurrentCall, attempt |-> attempt_number,
                                     ok |-> TRUE])
    /\ outcomes' = Append(outcomes, [call |-> CurrentCall,
                                     response |-> <<CurrentCall, attempt_number>>,
                                     error |-> "none"])
    /\ g_pc' = "returned"
    /\ UNCHANGED <<attempt_number, waits, runVars, execVars, evalVars, streamVars, genVars>>

\* line 81 raises: the decorator stops with RetryError or sleeps
AttemptFails ==
    /\ g_pc = "attempt"
    /\ attempts' = Append(attempts, [call |-> CurrentCall, attempt |-> attempt_number,
                                     ok |-> FALSE])
    /\ IF StopRetrying(attempt_number)
       THEN /\ outcomes' = Append(outcomes, [call |-> CurrentCall, response |-> None,
                                             error |-> "RetryError"])
            /\ g_pc' = "raised"
            /\ waits' = waits
       ELSE /\ waits' = Append(waits, WaitSeconds(attempt_number))
            /\ g_pc' = "wait"
            /\ outcomes' = outcomes
    /\ UNCHANGED <<attempt_number, runVars, execVars, evalVars, streamVars, genVars>>

\* the sleep is over: the next attempt is made
NextAttempt ==
    /\ g_pc = "wait"
    /\ attempt_number' = attempt_number + 1
    /\ g_pc' = "attempt"
    /\ UNCHANGED <<attempts, waits, outcomes, runVars, execVars, evalVars, streamVars, genVars>>

NextGateway ==
    \/ BeginCall
    \/ AttemptSucceeds
    \/ AttemptFails
    \/ NextAttempt

SpecGateway == InitGateway /\ [][NextGateway]_vars

-----------------------------------------------------------------------------
(***************************************************************************)
(* StreamHandler, src/src/streaming/stream_handler.py                      *)
(***************************************************************************)

MaxHandlerCalls == 4     \* subscribe, unsubscribe and emit calls made on the handler

\* the callables a caller may subscribe
Callbacks == {"on_a", "on_b"}

\* callback in self.subscribers
Subscribed(c) == \E k \in 1..Len(subscribers) : subscribers[k] = c

\* list.remove: the first occurrence is taken out
Remove(list, c) ==
    LET k == CHOOSE k \in 1..Len(list) :
                 list[k] = c /\ \A j \in 1..(k - 1) : list[j] # c IN
    SubSeq(list, 1, k - 1) \o SubSeq(list, k + 1, Len(list))

\* code outside the handler is running: its owner between emissions, or the
\* callback emit is calling
Running == IF frames = <<>> THEN TRUE ELSE Last(frames).running

\* code that may call the handler is running
CallerRuns ==
    /\ handler_calls < MaxHandlerCalls
    /\ Running

\* the frames with the innermost one replaced
WithTop(f) == [frames EXCEPT ![Len(frames)] = f]

InitStream ==
    /\ RunIdle
    /\ ExecIdle
    /\ EvalIdle
    /\ GatewayIdle
    /\ StreamIdle
    /\ GenIdle

\* lines 57-63: subscribe appends, whether or not the callback is there
Subscribe ==
    /\ CallerRuns
    /\ \E c \in Callbacks :
        /\ subscribers' = Append(subscribers, c)
        /\ unsubscribed' = unsubscribed \ {c}
    /\ handler_calls' = handler_calls + 1
    /\ UNCHANGED <<event_history, frames, deliveries, emitted, printed,
                   runVars, execVars, evalVars, gwVars, genVars>>

\* lines 65-72: unsubscribe removes the first occurrence, if there is one
Unsubscribe ==
    /\ CallerRuns
    /\ \E c \in Callbacks :
        /\ subscribers' = IF Subscribed(c) THEN Remove(subscribers, c) ELSE subscribers
        /\ unsubscribed' = unsubscribed \cup {c}
    /\ handler_calls' = handler_calls + 1
    /\ UNCHANGED <<event_history, frames, deliveries, emitted, printed,
                   runVars, execVars, evalVars, gwVars, genVars>>

\* lines 74-82: emit appends the event to the history and starts the for
\* statement over self.subscribers (a list iterator at index 0)
Emit ==
    /\ CallerRuns
    /\ LET event == Len(emitted) + 1 IN
        /\ event_history' = Append(event_history, event)
        /\ emitted' = Append(emitted, [subscribers |-> subscribers,
                                        unsubscribed |-> unsubscribed])
        /\ frames' = Append(frames, [event |-> event, i |-> 0, running |-> FALSE,
                                     gen |-> 0])
    /\ handler_calls' = handler_calls + 1
    /\ UNCHANGED <<subscribers, deliveries, unsubscribed, printed,
                   runVars, execVars, evalVars, gwVars, genVars>>

\* lines 97-99: clear_history empties the list
ClearHistory ==
    /\ CallerRuns
    /\ event_history' = <<>>
    /\ handler_calls' = handler_calls + 1
    /\ UNCHANGED <<subscribers, frames, deliveries, emitted, unsubscribed, printed,
                   runVars, execVars, evalVars, gwVars, genVars>>

\* lines 82-84: the iterator yields the element at its index of the list as
\* it is now, and emit calls it
CallCallback ==
    /\ frames # <<>>
    /\ ~Last(frames).running
    /\ Last(frames).i < Len(subscribers)
    /\ LET f == Last(frames) IN
        /\ deliveries' =
              Append(deliveries, [event |-> f.event, callback |-> subscribers[f.i + 1],
                                  unsubscribed |-> subscribers[f.i + 1] \in unsubscribed])
        /\ frames' = WithTop([f EXCEPT !.i = f.i + 1, !.running = TRUE])
    /\ UNCHANGED <<subscribers, event_history, emitted, unsubscribed, printed,
                   handler_calls, runVars, execVars, evalVars, gwVars, genVars>>

\* line 84: the callback returns
CallbackReturns ==
    /\ frames # <<>>
    /\ Last(frames).running
    /\ frames' = WithTop([Last(frames) EXCEPT !.running = FALSE])
    /\ UNCHANGED <<subscribers, event_history, deliveries, emitted, unsubscribed, printed,
                   handler_calls, runVars, execVars, evalVars, gwVars, genVars>>

\* Mutant of CallbackRaises: emit prints the error and raises it again, which
\* ends every emit call in progress.
CallbackRaisesAgain ==
    /\ frames # <<>>
    /\ Last(frames).running
    /\ frames' = <<>>
    /\ printed' = printed + 1
    /\ UNCHANGED <<subscribers, event_history, deliveries, emitted, unsubscribed,
                   handler_calls, runVars, execVars, evalVars, gwVars, genVars>>

\* lines 85-86: the callback raises an Exception, emit prints it and goes on
CallbackRaises ==
    /\ frames # <<>>
    /\ Last(frames).running
    /\ frames' = WithTop([Last(frames) EXCEPT !.running = FALSE])
    /\ printed' = printed + 1
    /\ UNCHANGED <<subscribers, event_history, deliveries, emitted, unsubscribed,
                   handler_calls, runVars, execVars, evalVars, gwVars, genVars>>

\* line 82: the iterator is past the end of the list, emit returns to the
\* code that called it
EmitReturns ==
    /\ frames # <<>>
    /\ ~Last(frames).running
    /\ Last(frames).i >= Len(subscribers)
    /\ Last(frames).gen = 0
    /\ frames' = SubSeq(frames, 1, Len(frames) - 1)
    /\ UNCHANGED <<subscribers, event_history, deliveries, emitted, unsubscribed, printed,
                   handler_calls, runVars, execVars, evalVars, gwVars, genVars>>

NextStream ==
    \/ Subscribe
    \/ Unsubscribe
    \/ Emit
    \/ ClearHistory
    \/ CallCallback
    \/ CallbackReturns
    \/ CallbackRaises
    \/ EmitReturns

SpecStream == InitStream /\ [][NextStream]_vars

-----------------------------------------------------------------------------
(***************************************************************************)
(* StreamingAgent.run_streaming (streaming/stream_handler.py, 193-219).    *)
(* A call returns a generator; its body runs when a consumer asks it for   *)
(* the next value, up to the next yield or to its end.  A generator is     *)
(* numbered when its body starts, and several generators can be suspended  *)
(* over the same handler.  Each StreamEvent is a new object: the model     *)
(* tells the events apart by the generator that emitted them, their type   *)
(* and their data.  The emit calls of run_streaming run as above: emit     *)
(* calls the subscribers one by one, and a callback may call the handler,  *)
(* operate a generator or raise before emit goes on.                       *)
(***************************************************************************)
MaxStreamingCalls == 2

\* what agent.run does: it returns its evaluation, or raises an Exception
RunReturns == {"overall_success", "overall_failure"}
RunRaises == {"RetryError", "UnboundLocalError", "TypeError"}

StreamEvent(n, type, data) == [call |-> n, type |-> type, data |-> data]

\* generator n is suspended at the yield of a stream_generator
Suspended(n) ==
    /\ rs_pc[n] \in {"start", "complete", "error"}
    /\ \A k \in 1..Len(frames) : frames[k].gen # n

\* emit, lines 74-82, called with a StreamEvent by generator n (0: by other
\* code) on top of the emit calls of stack: the event joins the history and
\* the for statement over self.subscribers starts
StartEmit(n, event, history, stack) ==
    /\ event_history' = Append(history, event)
    /\ emitted' = Append(emitted, [subscribers |-> subscribers,
                                   unsubscribed |-> unsubscribed])
    /\ frames' = Append(stack, [event |-> event, i |-> 0, running |-> FALSE, gen |-> n])
    /\ handler_calls' = handler_calls + 1
    /\ sent' = Append(sent, event)
    /\ UNCHANGED <<subscribers, deliveries, unsubscribed, printed>>

\* The body of generator n runs on from its yield from, with the emit calls
\* of stack in progress.  Lines 94-95 under the yield from (205, 212, 218):
\* the list iterator of its stream_generator yields the element at its index
\* and the generator is suspended.  With the iterator at the end of the list:
\* after line 205 agent.run returns and emit_complete is called (209-211), or
\* agent.run raises and emit_error is called (216-217), and the yield from
\* that follows will start a new stream_generator; after line 212 the body
\* ends with the result (214), after 218 with the exception (219).
RunsOn(n, stack) ==
    IF gen_pos[n] < Len(event_history)
    THEN /\ yielded' = Append(yielded, [call |-> n, event |-> event_history[gen_pos[n] + 1]])
         /\ gen_pos' = [gen_pos EXCEPT ![n] = gen_pos[n] + 1]
         /\ frames' = stack
         /\ UNCHANGED <<rs_pc, rs_calls, sent, subscribers, event_history, deliveries,
                        emitted, unsubscribed, printed, handler_calls>>
    ELSE IF rs_pc[n] = "start"
    THEN /\ \/ \E r \in RunReturns :
                  /\ StartEmit(n, StreamEvent(n, "complete", r), event_history, stack)
                  /\ rs_pc' = [rs_pc EXCEPT ![n] = "complete"]
            \/ \E e \in RunRaises :
                  /\ StartEmit(n, StreamEvent(n, "error", e), event_history, stack)
                  /\ rs_pc' = [rs_pc EXCEPT ![n] = "error"]
         /\ gen_pos' = [gen_pos EXCEPT ![n] = 0]
         /\ UNCHANGED <<rs_calls, yielded>>
    ELSE /\ rs_pc' = [rs_pc EXCEPT ![n] =
                         IF rs_pc[n] = "complete" THEN "returned" ELSE "raised"]
         /\ frames' = stack
         /\ UNCHANGED <<rs_calls, gen_pos, yielded, sent, subscribers, event_history,
                        deliveries, emitted, unsubscribed, printed, handler_calls>>

\* lines 203-204: the first next() on a generator run_streaming returned:
\* the body runs clear_history (97-99) and calls emit_start
RunStreaming ==
    /\ CallerRuns
    /\ rs_calls < MaxStreamingCalls
    /\ rs_calls' = rs_calls + 1
    /\ StartEmit(rs_calls + 1, StreamEvent(rs_calls + 1, "start", "goal"), <<>>, frames)
    /\ rs_pc' = Append(rs_pc, "start")
    /\ gen_pos' = Append(gen_pos, 0)
    /\ UNCHANGED <<yielded, runVars, execVars, evalVars, gwVars>>

\* line 82 in an emit call a generator made: emit returns and the body goes
\* on to the yield from that follows (205, 212, 218)
EmitReturnsToGenerator ==
    /\ frames # <<>>
    /\ ~Last(frames).running
    /\ Last(frames).i >= Len(subscribers)
    /\ Last(frames).gen # 0
    /\ RunsOn(Last(frames).gen, SubSeq(frames, 1, Len(frames) - 1))
    /\ UNCHANGED <<runVars, execVars, evalVars, gwVars>>

\* next() on a suspended generator; the consumer lets it go on to agent.run
\* and the emit call after it while handler calls are left
NextValue ==
    /\ Running
    /\ \E n \in 1..rs_calls :
        /\ Suspended(n)
        /\ \/ gen_pos[n] < Len(event_history)
           \/ rs_pc[n] # "start"
           \/ handler_calls < MaxHandlerCalls
        /\ RunsOn(n, frames)
    /\ UNCHANGED <<runVars, execVars, evalVars, gwVars>>

\* close() on a suspended generator, or the generator is dropped:
\* GeneratorExit is raised at the yield, it is no Exception, and the body ends
\* without another emit call
CloseGenerator ==
    /\ Running
    /\ \E n \in 1..rs_calls :
        /\ Suspended(n)
        /\ rs_pc' = [rs_pc EXCEPT ![n] = "closed"]
    /\ UNCHANGED <<rs_calls, gen_pos, yielded, sent, streamVars,
                   runVars, execVars, evalVars, gwVars>>

\* throw() of an Exception on a suspended generator: it is raised at the
\* yield.  Under the try statement (212) the handler of line 216 calls
\* emit_error and goes on as after a failure of agent.run; at 205 and at 218
\* the exception ends the body.
ThrowIntoGenerator ==
    /\ Running
    /\ \E n \in 1..rs_calls :
        /\ Suspended(n)
        /\ IF rs_pc[n] = "complete"
           THEN /\ handler_calls < MaxHandlerCalls
                /\ StartEmit(n, StreamEvent(n, "error", "thrown"), event_history, frames)
                /\ rs_pc' = [rs_pc EXCEPT ![n] = "error"]
                /\ gen_pos' = [gen_pos EXCEPT ![n] = 0]
                /\ UNCHANGED <<rs_calls, yielded>>
           ELSE /\ rs_pc' = [rs_pc EXCEPT ![n] = "thrown"]
                /\ UNCHANGED <<rs_calls, gen_pos, yielded, sent, streamVars>>
    /\ UNCHANGED <<runVars, execVars, evalVars, gwVars>>

\* lines 158-163: a callback, or a consumer between two values of a
\* generator, calls emit_progress
EmitProgress ==
    /\ CallerRuns
    /\ StartEmit(0, StreamEvent(0, "progress", Len(sent)), event_history, frames)
    /\ UNCHANGED <<rs_pc, rs_calls, gen_pos, yielded, runVars, execVars, evalVars, gwVars>>

NextStreaming ==
    \/ RunStreaming
    \/ NextValue
    \/ EmitReturnsToGenerator
    \/ CloseGenerator
    \/ ThrowIntoGenerator
    \/ Subscribe
    \/ Unsubscribe
    \/ ClearHistory
    \/ EmitProgress
    \/ CallCallback
    \/ CallbackReturns
    \/ CallbackRaises
    \/ EmitReturns

\* the handler and the StreamingAgent start as constructed
SpecStreaming == InitStream /\ [][NextStreaming]_vars

----------------------------------------------------------------------------
(***************************************************************************)
(* Properties of GeneralPurposeAgent.run (checked under Spec)              *)
(***************************************************************************)

IsCall(k, op) == calls[k].op = op

\* the step appends a call of the Executor to the history
ExecutorCalled ==
    \E k \in (Len(calls) + 1)..Len(calls') : calls'[k].op = "execute_task"

\* the loop stands at a subtask one of whose dependency ids is not completed
UnmetDependency ==
    /\ pc = "loop"
    /\ idx <= Len(initial_plan.subtasks)
    /\ \E k \in 1..Len(initial_plan.subtasks[idx].dependencies) :
          ~InList(initial_plan.subtasks[idx].dependencies[k], completed_subtasks)

\* C1: a subtask is handed to the Executor only when, as the loop reaches it,
\* all its dependency ids are in the completed set; when one is not, the step
\* the loop takes makes no call at all (no Executor, Gateway or tool call),
\* raises nothing and moves to the next subtask.
C1_DependencyGate ==
    [][ /\ ExecutorCalled => (pc = "loop" /\ ~UnmetDependency)
        /\ UnmetDependency =>
              /\ calls' = calls
              /\ pc' = "loop"
              /\ idx' = idx + 1
              /\ UNCHANGED <<initial_plan, result, raised, step_evaluations,
                             completed_subtasks>> ]_vars

\* C1 witness: the first subtask was executed and completed, the second one
\* lists it together with its own id and was skipped.
C1_Witness ==
    /\ pc = "done"
    /\ 2 \in skipped
    /\ initial_plan.subtasks[2].dependencies = <<1, 2>>
    /\ InList(1, completed_subtasks)
    /\ \E k \in 1..Len(calls) : IsCall(k, "execute_task") /\ calls[k].pos = 1

\* the last replan before call k that built a new plan is call j
LatestRevision(j, k) ==
    /\ j < k
    /\ IsCall(j, "replan")
    /\ ~calls[j].same
    /\ \A m \in (j + 1)..(k - 1) : ~(IsCall(m, "replan") /\ ~calls[m].same)

\* C2: once replan has returned a new plan, the Executor is called only for
\* subtasks of that new plan; a subtask of the old plan that the new plan
\* does not contain is not executed any more.
C2_ExecutesNewPlan ==
    \A k \in 1..Len(calls) :
        IsCall(k, "execute_task") =>
            \A j \in 1..Len(calls) :
                LatestRevision(j, k) =>
                    InList(initial_plan.subtasks[calls[k].pos].id, calls[j].ids)

\* C3: when the model's plan is unparsable or a subtask lacks its
\* description, create_plan does not raise and returns the one-subtask plan
\* (id 1, the goal, no dependencies), strategy "Direct execution".
C3_FallbackPlan ==
    planner_reply \in {"unparsable", "missing_description"} =>
        /\ raised # "UnboundLocalError"
        /\ current_plan # "None"
        /\ Len(initial_plan.subtasks) = 1
        /\ initial_plan.subtasks[1].id = 1
        /\ initial_plan.subtasks[1].description = goal
        /\ initial_plan.subtasks[1].dependencies = <<>>
        /\ initial_plan.strategy = "Direct execution"

\* C8: a skipped subtask stays skipped: the loop is past it, it was never
\* handed to the Executor, and it keeps status pending and no result, also
\* when its dependencies have completed since.
C8_SkipIsFinal ==
    \A p \in skipped :
        /\ p < idx
        /\ \A k \in 1..Len(calls) : calls[k].pos # p
        /\ initial_plan.subtasks[p].status = "pending"
        /\ initial_plan.subtasks[p].result = None

\* C8 witness: the run is over, a subtask was skipped, and every dependency of
\* it is in the completed set now (it completed later in declaration order).
C8_Witness ==
    /\ pc = "done"
    /\ \E p \in skipped :
          \A k \in 1..Len(initial_plan.subtasks[p].dependencies) :
              InList(initial_plan.subtasks[p].dependencies[k], completed_subtasks)

\* C9: run raises only for a persistent Gateway failure; in every other case
\* it ends by returning a FinalEvaluation.
C9_RaisesOnlyOnGatewayFailure ==
    /\ raised \in {"none", "RetryError"}
    /\ pc = "raised" => raised = "RetryError"
    /\ pc = "done" => final_evaluation # None

\* C10: a failing subtask whose replan returned the unmodified plan
\* is handed to the Executor again (so a run with such a replan has not
\* ended while that second attempt is missing).
C10_RetriesFailedSubtask ==
    pc = "done" =>
        \A j \in 1..Len(calls) :
            (IsCall(j, "replan") /\ calls[j].same) =>
                \E k \in (j + 1)..Len(calls) :
                    IsCall(k, "execute_task") /\ calls[k].pos = calls[j].pos

----------------------------------------------------------------------------
(***************************************************************************)
(* Properties of execute_task (checked under SpecExec)                     *)
(***************************************************************************)

NoNormalStop == \A i \in 1..Len(completions) : ~NormalStop(completions[i])

\* C4: a call in which no completion is a tool-free normal stop (every
\* Gateway request being answered) requests exactly max_iterations completions
\* and returns the failed result of iteration exhaustion; the loop never asks
\* for more completions than max_iterations, and the call does not raise.
C4_Exhaustion ==
    /\ iterations <= max_iterations
    /\ Len(completions) <= max_iterations
    /\ (e_pc = "returned" /\ NoNormalStop) =>
          /\ Len(completions) = max_iterations
          /\ exec_result.success = FALSE
          /\ exec_result.error = "Task execution exceeded maximum iterations"
    /\ (e_pc = "loop" /\ NoNormalStop /\ Len(completions) = max_iterations) =>
          (ENABLED ReturnExhausted /\ ~ENABLED RequestCompletion)
    /\ NoNormalStop => e_raised \in {"none", "RetryError"}

\* the completion requests one tool, and the tool is registered
OneRegisteredTool(completion) ==
    /\ Len(completion.tool_calls) = 1
    /\ completion.tool_calls[1].name \in Registry

\* the first k completions each request one registered tool, completion k+1
\* is a tool-free normal stop
ToolsThenStop(k) ==
    /\ Len(completions) = k + 1
    /\ \A i \in 1..k : OneRegisteredTool(completions[i])
    /\ NormalStop(completions[k + 1])

\* C5: k iterations with one registered tool each, then a tool-free normal
\* stop on iteration k+1 <= max_iterations: the call returns success, the
\* text of that completion as output, and a log of the k calls in call order;
\* no exception of its own ends the call during the k tool iterations.
C5_ToolsThenStop ==
    /\ \A k \in 0..(max_iterations - 1) :
          (e_pc = "returned" /\ ToolsThenStop(k)) =>
              /\ exec_result.success
              /\ exec_result.output = completions[k + 1].content
              /\ Len(exec_result.tool_calls) = k
              /\ \A i \in 1..k :
                    /\ exec_result.tool_calls[i].tool = completions[i].tool_calls[1].name
                    /\ exec_result.tool_calls[i].args =
                          (IF completions[i].tool_calls[1].arguments.kind = "json"
                           THEN completions[i].tool_calls[1].arguments.data ELSE <<>>)
    /\ (\A i \in 1..Len(completions) : OneRegisteredTool(completions[i]))
          => e_raised \in {"none", "RetryError"}

IsNotFound(m) == m.role = "tool" /\ ~m.content.success /\ m.content.error = "not found"

\* index in the conversation of the assistant message of iteration it
AssistantIndex(it) ==
    CHOOSE i \in 1..Len(messages) :
        /\ messages[i].role = "assistant"
        /\ Cardinality({j \in 1..i : messages[j].role = "assistant"}) = it

\* once the invocations of a completion are worked off, each of them has its
\* tool-result message, a "not found" one for every unregistered name
AllInvocationsAnswered ==
    e_pc \in {"loop", "returned"} =>
        \A it \in 1..Len(completions) :
            \A k \in 1..Len(completions[it].tool_calls) :
                LET m == messages[AssistantIndex(it) + k] IN
                /\ m.role = "tool"
                /\ m.tool_call_id = completions[it].tool_calls[k].id
                /\ completions[it].tool_calls[k].name \notin Registry => IsNotFound(m)

\* C6: the step that handles an invocation of an unregistered name appends the
\* tool-result message of that invocation (success false, error "not found"),
\* leaves the log and the iteration count alone, and goes on with the next
\* invocation of the completion, or with the loop after the last one; back in
\* the loop every invocation of the completion has been answered.
C6_UnknownTool ==
    /\ []AllInvocationsAnswered
    /\ [][ (e_pc = "tools" /\ tool_calls[tc].name \notin Registry) =>
            /\ Len(messages') = Len(messages) + 1
            /\ messages'[Len(messages')].role = "tool"
            /\ messages'[Len(messages')].tool_call_id = tool_calls[tc].id
            /\ messages'[Len(messages')].content.success = FALSE
            /\ messages'[Len(messages')].content.error = "not found"
            /\ tool_calls_made' = tool_calls_made
            /\ iterations' = iterations
            /\ tc' = tc + 1
            /\ e_pc' = (IF tc < Len(tool_calls) THEN "tools" ELSE "loop") ]_vars

\* C6 witness: a "not found" result is followed by the result of the next
\* invocation of the same completion and, later, by the assistant message of
\* the next iteration.
C6_Witness ==
    \E i \in 1..Len(messages) :
        /\ IsNotFound(messages[i])
        /\ i + 2 <= Len(messages)
        /\ messages[i + 1].role = "tool"
        /\ messages[i + 2].role = "assistant"

\* C7: tool executions happen in the order of the completion's invocations,
\* one after the other: execution k of an iteration saw a conversation that
\* ends with the results of invocations 1..k-1 of that completion, and its own
\* result is the message appended next.
C7_SequentialTools ==
    /\ \A a, b \in 1..Len(executions) :
          a < b => \/ executions[a].id[1] < executions[b].id[1]
                   \/ /\ executions[a].id[1] = executions[b].id[1]
                      /\ executions[a].id[2] < executions[b].id[2]
    /\ \A a \in 1..Len(executions) :
          LET e == executions[a]
              base == AssistantIndex(e.id[1]) IN
          /\ e.seen = base + e.id[2] - 1
          /\ \A k \in 1..(e.id[2] - 1) :
                /\ messages[base + k].role = "tool"
                /\ messages[base + k].tool_call_id = <<e.id[1], k>>
          /\ messages[e.seen + 1].role = "tool"
          /\ messages[e.seen + 1].tool_call_id = e.id
    /\ e_pc = "tools" =>
          /\ Len(messages) = AssistantIndex(iterations) + tc - 1
          /\ messages[AssistantIndex(iterations)].tool_calls = tool_calls

\* C7 witness: the second invocation of a completion was executed after the
\* first one of the same completion had been executed.
C7_Witness ==
    \E a \in 1..Len(executions) :
        /\ a > 1
        /\ executions[a].id[2] = 2
        /\ executions[a - 1].id = <<executions[a].id[1], 1>>

----------------------------------------------------------------------------
(***************************************************************************)
(* Properties of the Evaluator (checked under SpecEval)                    *)
(***************************************************************************)

\* C11: every FinalEvaluation evaluate_final returns has overall_success =
\* (overall_score >= success_threshold), and its overall_score and
\* overall_success are the ones every other narrative reply (unparsable,
\* plain summary, summary with a verdict of its own) would have given under
\* the same interpreter.
C11_SuccessFromScore ==
    v_pc = "finalled" =>
        /\ final_out.overall_success
              = FGe(final_out.overall_score, Float(success_threshold))
        /\ \E py \in Summations : \A reply \in FinalReplies :
              LET e == evaluate_final(py, goal, eval_steps, None, reply) IN
              /\ e.overall_score = final_out.overall_score
              /\ e.overall_success = final_out.overall_success

\* C11 witness: the narrative reply parsed and carried the verdict "success",
\* while the three scores of 0.7 give a float mean below the threshold 0.7.
C11_Witness ==
    /\ v_pc = "finalled"
    /\ eval_reply = "json"
    /\ final_out.summary = "verdict"
    /\ Len(eval_steps) = 3
    /\ \A i \in 1..3 : eval_steps[i].score = 70
    /\ ~final_out.overall_success

\* C12: evaluate_final on an empty sequence of step evaluations returns
\* (the call is enabled and ends in a result) overall_score 0.0 and
\* overall_success = (0.0 >= success_threshold).
C12_EmptyEvaluations ==
    /\ (v_pc = "final" /\ eval_steps = <<>>) => ENABLED EvaluateFinalCall
    /\ (v_pc = "finalled" /\ eval_steps = <<>>) =>
          /\ final_out.overall_score = FZero
          /\ final_out.overall_success = FGe(FZero, Float(success_threshold))
          /\ final_out.step_evaluations = <<>>

\* C12 witness: evaluate_final has returned for the empty sequence.
C12_Witness ==
    /\ v_pc = "finalled"
    /\ eval_steps = <<>>
    /\ ~final_out.overall_success

\* the orders the steps of a sequence can be passed in
Orders(steps) ==
    {[i \in 1..Len(steps) |-> steps[f[i]]] :
        f \in {g \in [1..Len(steps) -> 1..Len(steps)] :
                 \A i, j \in 1..Len(steps) : i # j => g[i] # g[j]}}

RECURSIVE ExactSum(_)
\* the sum of the float scores, without rounding
ExactSum(steps) ==
    IF steps = <<>> THEN FZero
    ELSE BigAdd(Float(steps[1].score), ExactSum(Tail(steps)))

\* n * 2^-52 on the grid (2^-52 is 2^10 grid units): the float sum of n
\* scores in [0,1] divided by n takes n roundings (n - 1 additions and the
\* division), each with a relative error of at most 2^-53, on values of at
\* most n, so the result is within n * 2^-52 of the mean
Tolerance(n) == BigMulSmall([i \in 1..Limbs |-> IF i = 1 THEN 1024 ELSE 0], n)

\* |a - b| <= t
Within(a, b, t) == BigGe(BigAdd(b, t), a) /\ BigGe(BigAdd(a, t), b)

\* C13 (as claimed): overall_score is the mean of the step scores, sum
\* divided by number of steps, and is the same for every order of the steps.
C13_MeanAnyOrder ==
    (v_pc = "finalled" /\ eval_steps # <<>>) =>
        \E py \in Summations :
            /\ final_out.overall_score
                  = FDivInt(SumScores(py, eval_steps), Len(eval_steps))
            /\ \A steps \in Orders(eval_steps) :
                  OverallScore(py, steps) = final_out.overall_score

\* C13 (amended): overall_score is the float the interpreter's sum() gives
\* for the n scores in the order given, divided by n; it is within n * 2^-52
\* of the arithmetic mean of the scores, and so is the overall_score of every
\* other order of the same steps, which therefore differs from it by at most
\* twice that.
C13_MeanWithinTolerance ==
    (v_pc = "finalled" /\ eval_steps # <<>>) =>
        LET n == Len(eval_steps) IN
        \E py \in Summations :
            /\ final_out.overall_score = FDivInt(SumScores(py, eval_steps), n)
            /\ \A steps \in Orders(eval_steps) :
                  /\ Within(BigMulSmall(OverallScore(py, steps), n), ExactSum(eval_steps),
                            BigMulSmall(Tolerance(n), n))
                  /\ Within(OverallScore(py, steps), final_out.overall_score,
                            BigMulSmall(Tolerance(n), 2))

\* C13 witness: three steps whose overall_score differs from the one another
\* order of the same steps gives.
C13_Witness ==
    /\ v_pc = "finalled"
    /\ Len(eval_steps) = 3
    /\ \E py \in Summations :
          /\ final_out.overall_score = OverallScore(py, eval_steps)
          /\ \E steps \in Orders(eval_steps) :
                OverallScore(py, steps) # final_out.overall_score

\* C14: on an unparsable scoring reply evaluate_step returns the evaluation
\* derived from actual_result: success is its success entry (false when
\* absent), score is 1.0 on success and 0.0 otherwise, issues are empty on
\* success and hold the error entry ("Unknown error" when absent) otherwise.
C14_StepFallback ==
    (v_pc = "stepped" /\ eval_reply = "unparsable") =>
        LET flag == IF "success" \in DOMAIN v_actual_result
                    THEN v_actual_result.success ELSE FALSE IN
        /\ step_out.success = flag
        /\ step_out.score = (IF flag THEN 100 ELSE 0)
        /\ step_out.issues =
              (IF flag THEN <<>>
               ELSE IF "error" \in DOMAIN v_actual_result
                    THEN <<v_actual_result.error>>
                    ELSE <<"Unknown error">>)

\* C14 witness: the fallback for a failed result with its error.
C14_Witness ==
    /\ v_pc = "stepped"
    /\ eval_reply = "unparsable"
    /\ ~step_out.success
    /\ step_out.score = 0
    /\ step_out.issues = <<"Task execution exceeded maximum iterations">>

\* C15: evaluate_step always returns: after a failed Gateway request, as
\* after an unparsable reply, its result is the fallback evaluation derived
\* from actual_result, and no exception leaves it.
C15_StepNeverRaises ==
    /\ v_pc # "step_raised"
    /\ (v_pc = "stepped" /\ eval_reply \in {"unparsable", "gateway_failure"}) =>
          step_out = evaluate_step(1, v_actual_result, Unparsable)

----------------------------------------------------------------------------
(***************************************************************************)
(* Properties of run with a failing Gateway, and of the plans create_plan  *)
(* returns (checked under Spec)                                            *)
(***************************************************************************)

\* planning got nothing usable from the Gateway: its request failed before a
\* plan existed, or the reply did not parse
PlanningUnavailable ==
    \/ planner_reply = "unparsable"
    \/ pc = "raised" /\ raised = "RetryError" /\ current_plan = "None"

\* C16: when the Gateway is unavailable for planning and for evaluation, run
\* does not raise at planning but works on the single-subtask fallback plan
\* (the goal, strategy "Direct execution"), and with a successful tool-free
\* execution and the fallback step evaluation (success, 1.0) it returns
\* overall_score 1.0 and overall_success true.
C16_FallbackScenario ==
    PlanningUnavailable =>
        /\ pc # "raised"
        /\ initial_plan.goal = goal
        /\ initial_plan.strategy = "Direct execution"
        /\ Len(initial_plan.subtasks) = 1
        /\ initial_plan.subtasks[1].description = goal
        /\ pc = "done" =>
              /\ final_evaluation.overall_score = FOne
              /\ final_evaluation.overall_success

\* the loop stands before a subtask whose dependencies are met: the next
\* thing run does is the execute_task call of line 185
AtExecute == AtSubtask /\ DepsMet(LoopSubtasks[idx], completed_subtasks)

\* C17: a Gateway failure during execute_task can happen at every
\* execute_task call and then leaves run as an exception (RetryError); when an
\* exception leaves execute_task no ExecutionResult is stored, the subtask
\* keeps the status and result it had before the call, nothing is appended to
\* the completed list or the evaluations, and no final evaluation is made
\* afterwards.
C17_ExecutorGatewayFailure ==
    /\ [](AtExecute => ENABLED (GatewayFailure /\ pc' = "raised"))
    /\ [][ (AtExecute /\ pc' = "raised") =>
              /\ raised' \in {"RetryError", "TypeError"}
              /\ GatewayFailure => raised' = "RetryError"
              /\ result' = result
              /\ initial_plan' = initial_plan
              /\ completed_subtasks' = completed_subtasks
              /\ step_evaluations' = step_evaluations
              /\ calls' = calls ]_vars
    /\ [](pc = "raised" => final_evaluation = None /\ task_history = <<>>)

\* C17 witness: the exception left run at the execute_task call of the second
\* subtask, after the first one had completed; the second subtask is still
\* pending and has no result.
C17_Witness ==
    /\ pc = "raised"
    /\ raised = "RetryError"
    /\ idx = 2
    /\ Len(LoopSubtasks) = 2
    /\ DepsMet(LoopSubtasks[2], completed_subtasks)
    /\ LoopSubtasks[1].status = "completed"
    /\ LoopSubtasks[2].status = "pending"
    /\ LoopSubtasks[2].result = None
    /\ result.success

\* C19: a plan create_plan returned has at most max_subtasks subtasks.
C19_AtMostMaxSubtasks ==
    current_plan # "None" => Len(initial_plan.subtasks) <= max_subtasks

\* C20: in a plan create_plan returned no two subtasks have the same id, and
\* every dependency a subtask lists is the id of a subtask of the plan.
C20_WellFormedPlan ==
    current_plan # "None" =>
        LET tasks == initial_plan.subtasks IN
        /\ \A i, j \in 1..Len(tasks) : i # j => tasks[i].id # tasks[j].id
        /\ \A i \in 1..Len(tasks) :
              \A k \in 1..Len(tasks[i].dependencies) :
                  \E j \in 1..Len(tasks) : tasks[j].id = tasks[i].dependencies[k]

----------------------------------------------------------------------------
(***************************************************************************)
(* Properties of chat_completion (checked under SpecGateway)               *)
(***************************************************************************)

\* the attempts made for call c, in order
AttemptsOf(c) == SelectSeq(attempts, LAMBDA a : a.call = c)

\* C18: every chat_completion call makes at most 3 attempts, numbered from 1;
\* a call that returned made its last attempt successfully after failures
\* only, and returns the response of that attempt; a call that raised made
\* exactly 3 attempts, all failed; a call still running has only failed
\* attempts behind it.
C18_AtMostThreeAttempts ==
    /\ attempt_number <= 3
    /\ \A c \in 1..CurrentCall :
          LET made == AttemptsOf(c) IN
          /\ Len(made) <= 3
          /\ \A k \in 1..Len(made) : made[k].attempt = k
          /\ \A k \in 1..(Len(made) - 1) : ~made[k].ok
          /\ c <= Len(outcomes) =>
                /\ Len(made) >= 1
                /\ IF outcomes[c].error = "none"
                   THEN /\ Last(made).ok
                        /\ outcomes[c].response = <<c, Len(made)>>
                   ELSE /\ Len(made) = 3
                        /\ ~Last(made).ok
                        /\ outcomes[c].error = "RetryError"
          /\ c > Len(outcomes) => \A k \in 1..Len(made) : ~made[k].ok

\* C18 witness: one call returned the response of its third attempt, another
\* one raised after three failed attempts.
C18_Witness ==
    /\ \E c \in 1..Len(outcomes) :
          IF outcomes[c].error = "none" THEN outcomes[c].response = <<c, 3>> ELSE FALSE
    /\ \E c \in 1..Len(outcomes) : outcomes[c].error = "RetryError"
    /\ waits # <<>>

----------------------------------------------------------------------------
(***************************************************************************)
(* Further properties of the Evaluator (checked under SpecEval)            *)
(***************************************************************************)

\* C21: every StepEvaluation evaluate_step returns has a score in [0,1],
\* whatever score the scoring reply carries, and every FinalEvaluation has an
\* overall_score in [0,1].
C21_ScoresInUnitInterval ==
    /\ v_pc = "stepped" => (0 <= step_out.score /\ step_out.score <= 100)
    /\ v_pc = "finalled" => FGe(FOne, final_out.overall_score)

----------------------------------------------------------------------------
(***************************************************************************)
(* Properties of replan and of the order of the calls of run (checked      *)
(* under Spec)                                                             *)
(***************************************************************************)

\* the step is a replan call that run made
ReplanStep == Len(calls') > Len(calls) /\ Last(calls').op = "replan"

\* C22: the plan a replan call built from a parsed revision gives a subtask
\* the status completed exactly if its id is in the completed_subtasks passed
\* to the call, and pending otherwise.
C22_ReplanStatuses ==
    [][ (ReplanStep /\ Last(calls').reply = "json") =>
          /\ ~Last(calls').same
          /\ current_plan' = "revised"
          /\ \A k \in 1..Len(revised_plan'.subtasks) :
                LET t == revised_plan'.subtasks[k] IN
                /\ t.status \in {"completed", "pending"}
                /\ t.status = "completed" <=> InList(t.id, completed_subtasks) ]_vars

\* C22 witness: a revised plan with a completed and a pending subtask.
C22_Witness ==
    /\ current_plan = "revised"
    /\ \E k \in 1..Len(revised_plan.subtasks) : revised_plan.subtasks[k].status = "completed"
    /\ \E k \in 1..Len(revised_plan.subtasks) : revised_plan.subtasks[k].status = "pending"

\* C23: a replan call whose revision does not parse, or lacks a description,
\* returns the plan it was given: self.current_plan is the same plan with the
\* same subtasks, statuses and results, and run goes on without an exception.
C23_ReplanKeepsOriginal ==
    [][ (ReplanStep /\ Last(calls').reply \in {"unparsable", "missing_description"}) =>
          /\ Last(calls').same
          /\ current_plan' = current_plan
          /\ CurrentPlan' = CurrentPlan
          /\ initial_plan' = initial_plan
          /\ pc' = "loop"
          /\ raised' = "none" ]_vars

\* C23 witness: replan was called with a plan holding a failed subtask with
\* its result, got a revision without a description, and returned that plan.
C23_Witness ==
    /\ \E j \in 1..Len(calls) :
          /\ IsCall(j, "replan")
          /\ calls[j].reply = "missing_description"
          /\ calls[j].same
    /\ current_plan = "initial"
    /\ \E k \in 1..Len(initial_plan.subtasks) :
          /\ initial_plan.subtasks[k].status = "failed"
          /\ initial_plan.subtasks[k].result # None

\* the positions of the subtasks passed to the Executor, in call order
ExecPositions ==
    LET ex == SelectSeq(calls, LAMBDA c : c.op = "execute_task") IN
    [k \in 1..Len(ex) |-> ex[k].pos]

\* the evaluate_final calls run made
FinalCalls == SelectSeq(calls, LAMBDA c : c.op = "evaluate_final")

\* C24: evaluate_final is called once in a run that returns, and not before;
\* with step evaluation enabled the sequence handed to it holds one
\* StepEvaluation per Executor invocation, in execution order, each with the
\* id of the subtask executed, and nothing else (none for a skipped subtask).
C24_OneEvaluationPerExecution ==
    /\ Len(FinalCalls) = (IF pc = "done" THEN 1 ELSE 0)
    /\ pc = "done" =>
          LET evals == FinalCalls[1].step_evaluations IN
          /\ final_evaluation.step_evaluations = evals
          /\ IF config.step_evaluation
             THEN /\ Len(evals) = Len(ExecPositions)
                  /\ \A k \in 1..Len(evals) :
                        /\ evals[k].step_id = LoopSubtasks[ExecPositions[k]].id
                        /\ ExecPositions[k] \notin skipped
             ELSE evals = <<>>

\* C24 witness: a run with step evaluation returned after executing one
\* subtask and skipping another.
C24_Witness ==
    /\ pc = "done"
    /\ config.step_evaluation
    /\ skipped # {}
    /\ Len(ExecPositions) >= 1
    /\ Len(final_evaluation.step_evaluations) = Len(ExecPositions)

\* C25: evaluate_final is called after the loop went through the whole list,
\* and its final_output is the result recorded for the last subtask of that
\* list: None only if the list is empty or that subtask was skipped.
C25_FinalOutputIsLastResult ==
    pc = "done" =>
        LET n == Len(LoopSubtasks)
            final == FinalCalls[1] IN
        /\ final.pos > n
        /\ final.final_output = (IF n = 0 THEN None ELSE LoopSubtasks[n].result)
        /\ final.final_output = None => (n = 0 \/ n \in skipped)

\* the calls of run without those of the thinking module, reduced to the
\* operation, the position of the subtask and, for replan, the completed
\* set it was given
OrderedCalls ==
    LET cs == SelectSeq(calls, LAMBDA c : c.op # "think") IN
    [k \in 1..Len(cs) |->
        [op |-> cs[k].op, pos |-> cs[k].pos,
         completed |-> IF cs[k].op = "replan" THEN cs[k].completed ELSE <<>>]]

\* the ids of the subtasks before position p whose stored status is completed
CompletedBefore(p) ==
    LET done == SelectSeq([k \in 1..(p - 1) |-> LoopSubtasks[k]],
                          LAMBDA t : t.status = "completed") IN
    [k \in 1..Len(done) |-> done[k].id]

\* the calls the order of the claim prescribes for the subtask at position p
CallsFor(p) ==
    IF p \in skipped THEN <<>>
    ELSE <<[op |-> "execute_task", pos |-> p, completed |-> <<>>]>>
         \o (IF config.step_evaluation
             THEN <<[op |-> "evaluate_step", pos |-> p, completed |-> <<>>]>>
             ELSE <<>>)
         \o (IF LoopSubtasks[p].status = "failed" /\ config.allow_replanning
             THEN <<[op |-> "replan", pos |-> p, completed |-> CompletedBefore(p)]>>
             ELSE <<>>)

RECURSIVE CallsUpTo(_)
CallsUpTo(p) == IF p = 0 THEN <<>> ELSE CallsUpTo(p - 1) \o CallsFor(p)

\* C28: between the Executor call and the next call the status and result
\* are stored on the subtask; and in a run that returned, the calls for every
\* executed subtask are the Executor, then evaluate_step if enabled, then one
\* replan with the completed set of that moment if and only if the stored
\* status is failed and replanning is enabled; a skipped subtask has no call.
C28_CallOrder ==
    /\ pc \in {"evaluate", "after"} =>
          /\ Last(calls).op \in {"execute_task", "evaluate_step"}
          /\ LoopSubtasks[idx].status = (IF result.success THEN "completed" ELSE "failed")
          /\ LoopSubtasks[idx].result =
                [success |-> result.success, output |-> result.output,
                 error |-> result.error]
    /\ pc = "evaluate" => Last(calls) = Call("execute_task", idx)
    /\ pc = "done" =>
          OrderedCalls =
              <<[op |-> "create_plan", pos |-> 0, completed |-> <<>>]>>
              \o CallsUpTo(Len(LoopSubtasks))
              \o <<[op |-> "evaluate_final", pos |-> Len(LoopSubtasks) + 1,
                    completed |-> <<>>]>>

\* C28 witness: a returned run with step evaluation in which a subtask
\* succeeded and a later one failed and was followed by a replan call that
\* was given the id of the first.
C28_Witness ==
    /\ pc = "done"
    /\ config.step_evaluation
    /\ \E k \in 1..Len(OrderedCalls) :
          /\ OrderedCalls[k].op = "replan"
          /\ OrderedCalls[k].completed # <<>>
          /\ OrderedCalls[k - 1].op = "evaluate_step"

\* every position of the iterated list was dealt with once: skipped or
\* handed to the Executor, never both and never twice
VisitedOnce ==
    /\ \A k \in 1..Len(ExecPositions) :
          /\ ExecPositions[k] \in 1..Len(LoopSubtasks)
          /\ ExecPositions[k] \notin skipped
          /\ \A j \in 1..(k - 1) : ExecPositions[j] < ExecPositions[k]
    /\ pc = "done" =>
          \A p \in 1..Len(LoopSubtasks) :
              p \in skipped \/ \E k \in 1..Len(ExecPositions) : ExecPositions[k] = p

\* the list the loop goes through keeps the length create_plan gave it,
\* whatever replan returns
SameLength ==
    (pc \notin {"plan", "raised"} /\ pc' \notin {"plan", "raised"})
        => Len(LoopSubtasks') = Len(LoopSubtasks)

\* C27: a run in which no call raises reaches evaluate_final and returns;
\* each subtask of the plan create_plan returned is visited once, so there
\* are at most N Executor invocations, N being the length of that plan,
\* whatever the replans return.
C27_RunTerminates ==
    /\ [][SameLength /\ VisitedOnce']_vars
    /\ [](pc # "raised") => <>(pc = "done" /\ Len(FinalCalls) = 1)

\* C27 witness: a returned run over two subtasks with two Executor
\* invocations and a replan that returned a revised plan.
C27_Witness ==
    /\ pc = "done"
    /\ Len(LoopSubtasks) = 2
    /\ Len(ExecPositions) = 2
    /\ current_plan = "revised"

\* the callbacks called with event k, in call order
DeliveredTo(k) ==
    LET ds == SelectSeq(deliveries, LAMBDA d : d.event = k) IN
    [j \in 1..Len(ds) |-> ds[j].callback]

\* the events callback c was called with, in call order
ReceivedBy(c) ==
    LET ds == SelectSeq(deliveries, LAMBDA d : d.callback = c) IN
    [j \in 1..Len(ds) |-> ds[j].event]

\* emit has returned for event k
EmitDone(k) == \A j \in 1..Len(frames) : frames[j].event # k

\* self.subscribers as it was when event k was emitted
SubscribersAt(k) == emitted[k].subscribers

\* C26: every emitted event is in the history; once emit has returned the
\* event was delivered to each callback subscribed at the time of emission
\* once, and to no callback twice; the deliveries of an event follow the
\* subscription order; each callback sees events in emission order; and a
\* callback is not called for an event emitted after it was unsubscribed
\* (unless it was subscribed again).
C26_DeliveredOnceInOrder ==
    /\ event_history
          = [k \in 1..Len(event_history) |-> Len(emitted) - Len(event_history) + k]
    /\ \A k \in 1..Len(emitted) :
          EmitDone(k) =>
              \A c \in Callbacks :
                  Cardinality({j \in 1..Len(DeliveredTo(k)) : DeliveredTo(k)[j] = c})
                      = (IF \E j \in 1..Len(SubscribersAt(k)) : SubscribersAt(k)[j] = c
                         THEN 1 ELSE 0)
    /\ \A k \in 1..Len(emitted) :
          \A i, j \in 1..Len(DeliveredTo(k)) :
              i < j =>
                  \E a, b \in 1..Len(SubscribersAt(k)) :
                      /\ a < b
                      /\ SubscribersAt(k)[a] = DeliveredTo(k)[i]
                      /\ SubscribersAt(k)[b] = DeliveredTo(k)[j]
    /\ \A c \in Callbacks :
          \A i, j \in 1..Len(ReceivedBy(c)) :
              i < j => ReceivedBy(c)[i] < ReceivedBy(c)[j]
    /\ \A d \in 1..Len(deliveries) :
          ~(deliveries[d].unsubscribed
            /\ deliveries[d].callback \in emitted[deliveries[d].event].unsubscribed)

\* role and, for a tool result, invocation id of the messages of iteration
\* it when answered of its invocations have their result
IterationShape(it, answered) ==
    <<[role |-> "assistant", id |-> <<it, 0>>]>>
    \o [k \in 1..answered |-> [role |-> "tool", id |-> completions[it].tool_calls[k].id]]

RECURSIVE ConversationShape(_, _)
\* the shape of the conversation after it iterations, the last of them with
\* answered results
ConversationShape(it, answered) ==
    IF it = 0
    THEN <<[role |-> "system", id |-> <<0, 0>>], [role |-> "user", id |-> <<0, 0>>]>>
    ELSE ConversationShape(it - 1,
                           IF it = 1 THEN 0 ELSE Len(completions[it - 1].tool_calls))
         \o IterationShape(it, answered)

\* role and invocation id of every message of the conversation
MessageShapes ==
    [i \in 1..Len(messages) |->
        [role |-> messages[i].role,
         id |-> IF messages[i].role = "tool" THEN messages[i].tool_call_id
                ELSE IF messages[i].role = "assistant"
                     THEN <<Cardinality({j \in 1..i : messages[j].role = "assistant"}), 0>>
                     ELSE <<0, 0>>]]

\* the conversation only grows at its end
AppendOnly ==
    /\ Len(messages') >= Len(messages)
    /\ SubSeq(messages', 1, Len(messages)) = messages

\* the conversation keeps the tool-call protocol: system, user, then per
\* completion received one assistant message followed by the results of its
\* invocations in their order; all of them once the loop goes on
ProtocolKept ==
    LET n == Len(completions)
        last == IF n = 0 THEN 0 ELSE Len(completions[n].tool_calls) IN
    /\ IF e_pc = "tools"
       THEN MessageShapes = ConversationShape(n, tc - 1)
       ELSE IF e_pc = "raised"
            THEN \E k \in 0..last : MessageShapes = ConversationShape(n, k)
            ELSE MessageShapes = ConversationShape(n, last)
    /\ \A it \in 1..n :
          LET m == messages[AssistantIndex(it)] IN
          /\ m.content = (IF completions[it].content = ContentNone
                          THEN "" ELSE completions[it].content)
          /\ completions[it].tool_calls # <<>> => m.tool_calls = completions[it].tool_calls
          /\ \A k \in 1..Len(completions[it].tool_calls) :
                AssistantIndex(it) + k <= Len(messages) =>
                    messages[AssistantIndex(it) + k].name = completions[it].tool_calls[k].name

\* C29: within one execute_task call the conversation is append-only; every
\* completion received adds exactly one assistant message (with content ""
\* when the completion has none), and an assistant message with n invocations
\* is followed by exactly n tool results, one per invocation, in the same
\* order and with the matching tool_call_id, for registered and unknown
\* names alike, before the next completion is requested.
C29_ConversationProtocol ==
    /\ []ProtocolKept
    /\ [][AppendOnly]_vars

\* C29 witness: a completion without content asked for an unknown and a
\* registered tool, both were answered, and the next completion, again
\* without content, has its assistant message.
C29_Witness ==
    /\ Len(completions) = 2
    /\ e_pc \in {"loop", "returned"}
    /\ completions[1].content = ContentNone
    /\ Len(completions[1].tool_calls) = 2
    /\ completions[1].tool_calls[1].name \notin Registry
    /\ completions[1].tool_calls[2].name \in Registry
    /\ completions[2].content = ContentNone
    /\ completions[2].tool_calls = <<>>
    /\ Len(messages) = 6
    /\ messages[6] = [role |-> "assistant", content |-> ""]

RECURSIVE Invocations(_)
\* the invocations of the first n completions, in the order they were made
Invocations(n) ==
    IF n = 0 THEN <<>> ELSE Invocations(n - 1) \o completions[n].tool_calls

\* the invocations of registered tools the call made, in order
RegisteredInvocations ==
    SelectSeq(Invocations(Len(completions)), LAMBDA c : c.name \in Registry)

\* C30: the tool_calls of every ExecutionResult, of a normal stop and of
\* iteration exhaustion, is the sequence of the invocations of registered
\* tools of the call, in execution order, each with the tool name, the
\* arguments the tool was executed with and the result it returned (the one
\* appended to the conversation); invocations of unknown names are not in it.
C30_LogIsExecutions ==
    e_pc = "returned" =>
        LET log == exec_result.tool_calls IN
        /\ Len(log) = Len(RegisteredInvocations)
        /\ Len(log) = Len(executions)
        /\ \A k \in 1..Len(log) :
              /\ executions[k].id = RegisteredInvocations[k].id
              /\ log[k].tool = RegisteredInvocations[k].name
              /\ log[k].args = executions[k].args
              /\ log[k].args = (IF RegisteredInvocations[k].arguments.kind = "json"
                                THEN RegisteredInvocations[k].arguments.data ELSE <<>>)
              /\ log[k].result = messages[executions[k].seen + 1].content
              /\ messages[executions[k].seen + 1].tool_call_id = executions[k].id

\* C30 witness: the budget was exhausted after two iterations with tool
\* invocations, one of them of an unknown name, and the result carries the
\* two registered executions, the first of which failed.
C30_Witness ==
    /\ e_pc = "returned"
    /\ ~exec_result.success
    /\ Len(exec_result.tool_calls) = 2
    /\ Len(Invocations(Len(completions))) = 3
    /\ ~exec_result.tool_calls[1].result.success
    /\ exec_result.tool_calls[2].result.success

\* the completion just received has no tool invocation and a finish reason
\* other than "stop"
CutOff(completion) == completion.tool_calls = <<>> /\ completion.finish_reason # "stop"

\* C31: a successful result comes from a completion without tool invocation
\* and with finish reason "stop", and this is the first such completion of
\* the call; a completion without tool invocation and another finish reason
\* adds its assistant message, uses up one iteration, leaves the call
\* unreturned, and the loop requests the next completion while the budget
\* lasts.
C31_SuccessOnlyOnStop ==
    /\ [](e_pc = "returned" /\ exec_result.success =>
            /\ completions # <<>>
            /\ Last(completions).tool_calls = <<>>
            /\ Last(completions).finish_reason = "stop"
            /\ exec_result.output = Last(completions).content
            /\ \A i \in 1..(Len(completions) - 1) : ~NormalStop(completions[i]))
    /\ [](e_pc = "loop" /\ completions # <<>> /\ iterations < max_iterations =>
            ENABLED RequestCompletion)
    /\ [][ (Len(completions') = Len(completions) + 1 /\ CutOff(Last(completions'))) =>
            /\ messages' = Append(messages, AssistantMessage(Last(completions')))
            /\ iterations' = iterations + 1
            /\ e_pc' = "loop"
            /\ exec_result' = None ]_vars

\* C31 witness: the first completion was cut off (finish reason "length", no
\* tool invocation), the second one stopped normally and the call returned
\* success.
C31_Witness ==
    /\ e_pc = "returned"
    /\ exec_result.success
    /\ Len(completions) = 2
    /\ CutOff(completions[1])
    /\ completions[1].finish_reason = "length"
    /\ Len(messages) = 4

\* the inner loop is at an invocation of a registered tool whose arguments
\* text is not JSON
AtMalformedArguments ==
    /\ e_pc = "tools"
    /\ tool_calls[tc].name \in Registry
    /\ tool_calls[tc].arguments = Unparsable

\* C32: the step that handles an invocation of a registered tool with an
\* arguments text that is not JSON executes the tool with empty arguments,
\* appends its result as the tool message of that invocation, appends the
\* call with that result to the log, and goes on with the next invocation or
\* the loop; the call is left only if the reflection that follows a
\* successful tool fails at the Gateway.
C32_MalformedArguments ==
    [][ AtMalformedArguments =>
          /\ Len(executions') = Len(executions) + 1
          /\ Last(executions').id = tool_calls[tc].id
          /\ Last(executions').args = EmptyDict
          /\ Len(messages') = Len(messages) + 1
          /\ Last(messages').role = "tool"
          /\ Last(messages').tool_call_id = tool_calls[tc].id
          /\ Last(messages').content \in ToolResults
          /\ tool_calls_made' =
                Append(tool_calls_made,
                       [tool |-> tool_calls[tc].name, args |-> EmptyDict,
                        result |-> Last(messages').content])
          /\ e_pc' \in {"raised", IF tc < Len(tool_calls) THEN "tools" ELSE "loop"}
          /\ e_pc' = "raised" => (thinking_module /\ Last(messages').content.success) ]_vars

\* C32 witness: a call returned whose log has an entry with empty arguments
\* made for an invocation whose arguments text was not JSON.
C32_Witness ==
    /\ e_pc = "returned"
    /\ \E k \in 1..Len(executions) :
          /\ completions[executions[k].id[1]].tool_calls[executions[k].id[2]].arguments
                = Unparsable
          /\ exec_result.tool_calls[k].args = EmptyDict
          /\ exec_result.tool_calls[k].result.success

\* the step executed a registered tool and the tool returned success false
ToolFailed ==
    /\ Len(executions') = Len(executions) + 1
    /\ ~Last(tool_calls_made').result.success

\* C33: a tool result with success false is appended to the conversation
\* and to the log as it is, and the step goes on with the next invocation or
\* the loop without returning or raising; whether a returned result reports
\* success is decided by the last completion alone (no invocation and finish
\* reason "stop"), whatever the tools returned.
C33_ToolFailureIsData ==
    /\ [][ ToolFailed =>
            /\ Len(tool_calls_made') = Len(tool_calls_made) + 1
            /\ messages' =
                  Append(messages,
                         [role |-> "tool", tool_call_id |-> tool_calls[tc].id,
                          name |-> tool_calls[tc].name,
                          content |-> Last(tool_calls_made').result])
            /\ e_pc' = (IF tc < Len(tool_calls) THEN "tools" ELSE "loop")
            /\ exec_result' = None ]_vars
    /\ [](e_pc = "returned" =>
            exec_result.success = NormalStop(Last(completions)))

\* C33 witness: every tool call of the call failed, there was at least one,
\* and the call returned success.
C33_Witness ==
    /\ e_pc = "returned"
    /\ exec_result.success
    /\ exec_result.tool_calls # <<>>
    /\ \A k \in 1..Len(exec_result.tool_calls) : ~exec_result.tool_calls[k].result.success

\* position p of the iterated list was handed to the Executor
Executed(p) == \E k \in 1..Len(calls) : IsCall(k, "execute_task") /\ calls[k].pos = p

RECURSIVE DependsOnFailure(_)
\* the subtask at position q names the id of an earlier subtask that failed,
\* or of an earlier skipped subtask that itself depends on a failure
DependsOnFailure(q) ==
    \E p \in 1..(q - 1) :
        /\ InList(LoopSubtasks[p].id, LoopSubtasks[q].dependencies)
        /\ \/ LoopSubtasks[p].status = "failed"
           \/ p \in skipped /\ DependsOnFailure(p)

\* C34: in a run that returned, every subtask whose dependencies were all
\* in the completed set when the loop reached it was handed to the Executor,
\* also after a failure, and every subtask that depends on a failed one,
\* directly or through skipped ones, was skipped; the completed set only
\* grows, by the id of the subtask whose execution just succeeded.
C34_FailureDoesNotEndRun ==
    /\ [](pc = "done" =>
            \A q \in 1..Len(LoopSubtasks) :
                /\ Executed(q) <=>
                      \A k \in 1..Len(LoopSubtasks[q].dependencies) :
                          InList(LoopSubtasks[q].dependencies[k], CompletedBefore(q))
                /\ Executed(q) <=> q \notin skipped
                /\ DependsOnFailure(q) => q \in skipped)
    /\ [][ \/ completed_subtasks' = completed_subtasks
           \/ /\ result.success
              /\ completed_subtasks' = Append(completed_subtasks, LoopSubtasks[idx].id) ]_vars

\* the subtasks of the plans run holds: the iterated list and the revision
HeldSubtasks ==
    (IF initial_plan = NoPlan THEN {}
     ELSE {initial_plan.subtasks[k] : k \in 1..Len(initial_plan.subtasks)})
    \cup (IF revised_plan = NoPlan THEN {}
          ELSE {revised_plan.subtasks[k] : k \in 1..Len(revised_plan.subtasks)})

\* the step changes the subtask at position p of the iterated list
SubtaskChanges(p) == initial_plan'.subtasks[p] # initial_plan.subtasks[p]

\* C35: a subtask of the list run iterates changes only in the step in which
\* the Executor returned for it: its status goes from pending to completed
\* (success) or failed (failure) and its result is set from the
\* ExecutionResult in the same step, nothing else of it changes, and it
\* changes once; no subtask ever has status in_progress; a skipped subtask
\* keeps status pending and no result.
C35_StatusSetByExecution ==
    /\ [][ (initial_plan # NoPlan) =>
            /\ Len(initial_plan'.subtasks) = Len(initial_plan.subtasks)
            /\ \A p \in 1..Len(initial_plan.subtasks) :
                  SubtaskChanges(p) =>
                      /\ pc = "loop" /\ idx = p
                      /\ calls' = Append(calls, Call("execute_task", p))
                      /\ initial_plan.subtasks[p].status = "pending"
                      /\ initial_plan.subtasks[p].result = None
                      /\ initial_plan'.subtasks[p] =
                            [initial_plan.subtasks[p] EXCEPT
                               !.status = IF result'.success THEN "completed" ELSE "failed",
                               !.result = [success |-> result'.success,
                                           output |-> result'.output,
                                           error |-> result'.error]] ]_vars
    /\ [](\A t \in HeldSubtasks : t.status \in {"pending", "completed", "failed"})
    /\ [](\A p \in skipped :
            /\ initial_plan.subtasks[p].status = "pending"
            /\ initial_plan.subtasks[p].result = None)
    /\ [](initial_plan # NoPlan =>
            \A p \in 1..Len(initial_plan.subtasks) :
                (initial_plan.subtasks[p].status = "pending")
                    <=> (initial_plan.subtasks[p].result = None))

\* C35 witness: a run returned after a failed execution of the first
\* subtask, whose result is stored, and after skipping the second, which is
\* still pending without result.
C35_Witness ==
    /\ pc = "done"
    /\ Len(initial_plan.subtasks) = 2
    /\ initial_plan.subtasks[1].status = "failed"
    /\ initial_plan.subtasks[1].result # None
    /\ skipped = {2}
    /\ initial_plan.subtasks[2].status = "pending"

\* the plan offered for storage by save_task at the end of the run
StoredPlan == Last(task_history).plan

\* C36: at the end of a run every subtask that was handed to the Executor
\* is, with the status and the result the run stored on it, among the
\* subtasks of the plan held as current_plan, and that plan is the one
\* offered for storage.
C36_ExecutedSubtasksKept ==
    pc = "done" =>
        /\ Len(task_history) = 1
        /\ StoredPlan = CurrentPlan
        /\ \A p \in 1..Len(LoopSubtasks) :
              Executed(p) =>
                  /\ LoopSubtasks[p].status \in {"completed", "failed"}
                  /\ LoopSubtasks[p].result # None
                  /\ \E k \in 1..Len(StoredPlan.subtasks) :
                        StoredPlan.subtasks[k] = LoopSubtasks[p]

\* thresholds of the configuration, in hundredths: 0.01 .. 1.00
PositiveThresholds == {1, 10, 50, 70, 100}

\* C37: with step evaluation disabled no StepEvaluation is accumulated and
\* evaluate_step is never called; evaluate_final is handed the empty
\* sequence and the run returns overall_score 0.0 and overall_success false,
\* as it would for every positive success_threshold, whatever the Executor
\* returned for the subtasks.
C37_NoStepEvaluationScoresZero ==
    ~config.step_evaluation =>
        /\ step_evaluations = <<>>
        /\ \A k \in 1..Len(calls) : ~IsCall(k, "evaluate_step")
        /\ pc = "done" =>
              /\ FinalCalls[1].step_evaluations = <<>>
              /\ final_evaluation.step_evaluations = <<>>
              /\ final_evaluation.overall_score = FZero
              /\ \A py \in Summations :
                    final_evaluation.overall_score = OverallScore(py, <<>>)
              /\ final_evaluation.overall_success = FALSE
              /\ \A t \in PositiveThresholds :
                    ~FGe(final_evaluation.overall_score, Float(t))

\* C37 witness: step evaluation is off, both subtasks of the plan were
\* executed successfully, and the run returned score 0.0 and failure.
C37_Witness ==
    /\ ~config.step_evaluation
    /\ pc = "done"
    /\ Len(LoopSubtasks) = 2
    /\ \A p \in 1..2 : LoopSubtasks[p].status = "completed"
    /\ final_evaluation.overall_score = FZero
    /\ ~final_evaluation.overall_success

\* the step is one in which a callback raised (emit printed the error)
CallbackRaised == printed' = printed + 1

\* the for statement of the innermost emit has subscribers left to call
SubscribersLeft ==
    IF frames = <<>> THEN FALSE
    ELSE ~Last(frames).running /\ Last(frames).i < Len(subscribers)

\* C39: when a callback raises an Exception, the event stays in the history,
\* the subscriber list is unchanged (the failing callback stays subscribed),
\* the emit call stays in progress at the same position, as after a callback
\* that returned; and while subscribers are left in the list emit goes on to
\* call the next one and does not return.
C39_RaisingCallbackIsolated ==
    /\ [][ CallbackRaised =>
            /\ Len(frames') = Len(frames)
            /\ frames' = [frames EXCEPT ![Len(frames)].running = FALSE]
            /\ event_history' = event_history
            /\ subscribers' = subscribers
            /\ deliveries' = deliveries ]_vars
    /\ [](SubscribersLeft => (ENABLED CallCallback /\ ~ENABLED EmitReturns))

\* C39 witness: with two subscribers, the first raised on the first event,
\* the second still received that event, emit returned, and the first was
\* called again with the second event.
C39_Witness ==
    /\ Len(emitted) = 2
    /\ SubscribersAt(1) = <<"on_a", "on_b">>
    /\ Len(deliveries) = 3
    /\ DeliveredTo(1) = <<"on_a", "on_b">>
    /\ printed = 1
    /\ DeliveredTo(2) = <<"on_a">>
    /\ subscribers = <<"on_a", "on_b">>


-----------------------------------------------------------------------------
(***************************************************************************)
(* run_streaming and the events it yields                                  *)
(***************************************************************************)
FromCall(n, list) == SelectSeq(list, LAMBDA x : x.call = n)

\* the events call n yielded, in order
YieldedBy(n) ==
    LET ys == FromCall(n, yielded)
    IN  [i \in 1..Len(ys) |-> ys[i].event]

IsPrefix(a, b) == Len(a) <= Len(b) /\ SubSeq(b, 1, Len(a)) = a

CallEnded(n) == rs_pc[n] \in {"returned", "raised"}

\* C38: run_streaming yields each event emitted during the call exactly once,
\* in emission order (the start event, then the complete or the error event),
\* and yields no event of an earlier call.
C38_YieldedOnceInOrder ==
    \A n \in 1..rs_calls :
        /\ IsPrefix(YieldedBy(n), FromCall(n, sent))
        /\ CallEnded(n) => YieldedBy(n) = FromCall(n, sent)
        /\ \A i \in 1..Len(YieldedBy(n)) : YieldedBy(n)[i].call = n

====
